---- MODULE Spec2Model ----
(***************************************************************************)
(* A model of the AnyTS interpreter core (src/source/interpreter.cpp and   *)
(* src/source/ts.cpp): the tagged Value, the expression evaluator          *)
(* (tokenizer, shunting yard, postfix stack machine) and the line-oriented *)
(* statement executor driven by executeScript.                             *)
(*                                                                         *)
(* Strings are sequences of one-character strings; positions are 0-based   *)
(* as in the C++ source, and size_t arithmetic wraps (see Wrap).           *)
(***************************************************************************)
EXTENDS Integers, Sequences, FiniteSets, TLC

VARIABLES
    script,     \* executeScript: the script, a sequence of source lines
    idx,        \* executeScript: 0-based index of the next line of the loop
    ctx,        \* the Context: [variables, userFunctions, isGlobal, genv]
    proc,       \* the process: [cin, out, k, what, ub] (standard input still unread,
                \* everything printed, "ok"/"crash"/"throw", the escaped exception's
                \* what(), whether undefined behaviour has been executed)
    trace,      \* history: the handler each dispatched top-level line selected
    exprText,   \* evalSimpleExpression: the expression string under evaluation
    exprResult, \* evalSimpleExpression: its outcome [p, val], once evaluated
    host,       \* main and Setup::runFile: [pc, argv, file, errors, status] (where
                \* control is, the command line, the file argv[1] names, the
                \* pre-pass findings, the exit status once the process has ended)
    codec       \* the half codec: [h, f, out] (the uint16_t given to half_to_float,
                \* the float held, the uint16_t float_to_half returned; -1 and
                \* NoFloat where there is none yet)

vars == <<script, idx, ctx, proc, trace, exprText, exprResult, host, codec>>

(***************************************************************************)
(* Characters and std::string operations                                   *)
(***************************************************************************)
Digits == {"0", "1", "2", "3", "4", "5", "6", "7", "8", "9"}

Lower == {"a", "b", "c", "d", "e", "f", "g", "h", "i", "j", "k", "l", "m",
          "n", "o", "p", "q", "r", "s", "t", "u", "v", "w", "x", "y", "z"}

Upper == {"A", "B", "C", "D", "E", "F", "G", "H", "I", "J", "K", "L", "M",
          "N", "O", "P", "Q", "R", "S", "T", "U", "V", "W", "X", "Y", "Z"}

\* a local variable: F evaluated with its parameter bound to the value v, which
\* is computed at most once however often F reads it
Let(v, F(_)) == F(v)

isdigit(c) == c \in Digits

isalpha(c) == c \in Lower \cup Upper

isalnum(c) == isalpha(c) \/ isdigit(c)

isspace(c) == c \in {" ", "\t", "\n", "\r", "\f"}

\* std::string::npos, the largest size_t; the width is scaled down from 64 bits
npos == 2^16 - 1

\* size_t arithmetic is modulo npos + 1
Wrap(x) == x % (npos + 1)

\* s[i] for a 0-based i; s[size()] is the terminating '\0'
At(s, i) == IF i < Len(s) THEN s[i + 1] ELSE "\\0"

Min(a, b) == IF a < b THEN a ELSE b

\* s.substr(pos, count), pos <= size(); count may be npos-like (to the end)
substr(s, pos, count) == SubSeq(s, pos + 1, Min(pos + count, Len(s)))

\* s.substr(pos)
substrFrom(s, pos) == SubSeq(s, pos + 1, Len(s))

\* s.find(ch, from)
find(s, ch, from) ==
    LET hits == {i \in 0 .. Len(s) - 1 : i >= from /\ s[i + 1] = ch}
    IN  IF hits = {} THEN npos ELSE CHOOSE i \in hits : \A j \in hits : i <= j

\* s.rfind(ch)
rfind(s, ch) ==
    LET hits == {i \in 0 .. Len(s) - 1 : s[i + 1] = ch}
    IN  IF hits = {} THEN npos ELSE CHOOSE i \in hits : \A j \in hits : i >= j

\* s.rfind(prefix, 0) == 0
startsWith(s, prefix) ==
    /\ Len(s) >= Len(prefix)
    /\ SubSeq(s, 1, Len(prefix)) = prefix

whitespace == {" ", "\t", "\r", "\n"}

trim(s) ==
    LET keep  == {i \in 0 .. Len(s) - 1 : s[i + 1] \notin whitespace}
        start == IF keep = {} THEN npos ELSE CHOOSE i \in keep : \A j \in keep : i <= j
        end   == IF keep = {} THEN npos ELSE CHOOSE i \in keep : \A j \in keep : i >= j
    IN  IF start = npos THEN <<>> ELSE substr(s, start, end - start + 1)

\* expr.pop_back() when the string ends in ';'
stripSemicolon(s) ==
    IF Len(s) > 0 /\ s[Len(s)] = ";" THEN SubSeq(s, 1, Len(s) - 1) ELSE s

(***************************************************************************)
(* double: a finite value is the exact fraction n/d in lowest terms; the   *)
(* two infinities and NaN are separate kinds.  The sign of a NaN and of a  *)
(* zero is not represented.                                                *)
(***************************************************************************)
Abs(x) == IF x < 0 THEN -x ELSE x

Sign(x) == IF x < 0 THEN -1 ELSE IF x > 0 THEN 1 ELSE 0

RECURSIVE Gcd(_, _)
Gcd(a, b) == IF b = 0 THEN a ELSE Gcd(b, a % b)

\* the double n/d, d # 0
Frac(n, d) ==
    LET g == Gcd(Abs(n), Abs(d))
    IN  [k |-> "fin", n |-> (Sign(d) * n) \div g, d |-> Abs(d) \div g]

Dbl(n) == [k |-> "fin", n |-> n, d |-> 1]

\* std::numeric_limits<double>::quiet_NaN()
quiet_NaN == [k |-> "nan", n |-> 0, d |-> 1]

\* INFINITY with sign sg (1 or -1)
Infinity(sg) == [k |-> "inf", n |-> sg, d |-> 1]

DSign(x) == Sign(x.n)

DIsZero(x) == x.k = "fin" /\ x.n = 0

DNeg(x) == [x EXCEPT !.n = -x.n]

\* a + b
DAdd(a, b) ==
    IF a.k = "nan" \/ b.k = "nan" THEN quiet_NaN
    ELSE IF a.k = "inf" /\ b.k = "inf" THEN (IF a.n = b.n THEN a ELSE quiet_NaN)
    ELSE IF a.k = "inf" THEN a
    ELSE IF b.k = "inf" THEN b
    ELSE Frac(a.n * b.d + b.n * a.d, a.d * b.d)

\* a - b
DSub(a, b) == DAdd(a, DNeg(b))

\* a * b
DMul(a, b) ==
    IF a.k = "nan" \/ b.k = "nan" THEN quiet_NaN
    ELSE IF a.k = "inf" \/ b.k = "inf"
         THEN (IF DIsZero(a) \/ DIsZero(b) THEN quiet_NaN ELSE Infinity(DSign(a) * DSign(b)))
    ELSE Frac(a.n * b.n, a.d * b.d)

\* a / b
DDiv(a, b) ==
    IF a.k = "nan" \/ b.k = "nan" THEN quiet_NaN
    ELSE IF a.k = "inf" THEN (IF b.k = "inf" THEN quiet_NaN
                              ELSE Infinity(a.n * (IF b.n < 0 THEN -1 ELSE 1)))
    ELSE IF b.k = "inf" THEN Dbl(0)
    ELSE IF b.n = 0 THEN (IF a.n = 0 THEN quiet_NaN ELSE Infinity(DSign(a)))
    ELSE Frac(a.n * b.d, a.d * b.n)

\* a == b on doubles (a NaN equals nothing)
DEq(a, b) == a.k # "nan" /\ b.k # "nan" /\ a = b

\* a < b on doubles (false when either is NaN)
DLt(a, b) ==
    IF a.k = "nan" \/ b.k = "nan" THEN FALSE
    ELSE IF a.k = "inf" THEN a.n < 0 /\ b # a
    ELSE IF b.k = "inf" THEN b.n > 0
    ELSE a.n * b.d < b.n * a.d

\* truncation toward zero of the fraction n/d, d > 0
TruncDiv(n, d) == Sign(n) * (Abs(n) \div d)

\* std::fmod(a, b)
DFmod(a, b) ==
    IF a.k = "nan" \/ b.k = "nan" \/ a.k = "inf" \/ DIsZero(b) THEN quiet_NaN
    ELSE IF b.k = "inf" THEN a
    ELSE LET q == TruncDiv(a.n * b.d, a.d * Abs(b.n))
         IN  DSub(a, DMul(Dbl(q), [b EXCEPT !.n = Abs(b.n)]))

RECURSIVE IPow(_, _)
IPow(b, e) == IF e = 0 THEN 1 ELSE b * IPow(b, e - 1)

\* std::pow(a, b); a positive base with a fractional exponent has no exact
\* fraction and is outside what the model represents (no case for it)
DPow(a, b) ==
    IF DIsZero(b) THEN Dbl(1)
    ELSE IF a = Dbl(1) THEN Dbl(1)
    ELSE IF a.k = "nan" \/ b.k = "nan" THEN quiet_NaN
    ELSE IF b.k = "inf"
         THEN (IF a.k = "fin" /\ Abs(a.n) = a.d THEN Dbl(1)
               ELSE IF (a.k = "fin" /\ Abs(a.n) < a.d) = (b.n < 0) THEN Infinity(1)
               ELSE Dbl(0))
    ELSE IF a.k = "inf"
         THEN (IF b.n < 0 THEN Dbl(0)
               ELSE IF a.n < 0 /\ b.d = 1 /\ b.n % 2 = 1 THEN Infinity(-1)
               ELSE Infinity(1))
    ELSE CASE b.d = 1 /\ b.n > 0 -> Frac(IPow(a.n, b.n), IPow(a.d, b.n))
           [] b.d = 1 /\ b.n < 0 /\ a.n = 0 -> Infinity(1)
           [] b.d = 1 /\ b.n < 0 /\ a.n # 0 -> Frac(IPow(a.d, -b.n), IPow(a.n, -b.n))
           [] b.d # 1 /\ a.n < 0 -> quiet_NaN
           [] b.d # 1 /\ a.n = 0 -> IF b.n > 0 THEN Dbl(0) ELSE Infinity(1)

(***************************************************************************)
(* Formatting of a double by operator<<(ostream&, double): %g with the     *)
(* default precision of 6 significant digits                               *)
(***************************************************************************)
RECURSIVE Pow10(_)
Pow10(k) == IF k = 0 THEN 1 ELSE 10 * Pow10(k - 1)

DigitChar(v) == CASE v = 0 -> "0" [] v = 1 -> "1" [] v = 2 -> "2" [] v = 3 -> "3"
                  [] v = 4 -> "4" [] v = 5 -> "5" [] v = 6 -> "6" [] v = 7 -> "7"
                  [] v = 8 -> "8" [] v = 9 -> "9"

DigitVal(c) == CASE c = "0" -> 0 [] c = "1" -> 1 [] c = "2" -> 2 [] c = "3" -> 3
                 [] c = "4" -> 4 [] c = "5" -> 5 [] c = "6" -> 6 [] c = "7" -> 7
                 [] c = "8" -> 8 [] c = "9" -> 9

\* the decimal digits of n >= 0
RECURSIVE NatToStr(_)
NatToStr(n) == IF n < 10 THEN <<DigitChar(n)>> ELSE NatToStr(n \div 10) \o <<DigitChar(n % 10)>>

\* n >= 0 as exactly w digits, zero-padded on the left
RECURSIVE PadDigits(_, _)
PadDigits(n, w) == IF w = 0 THEN <<>> ELSE PadDigits(n \div 10, w - 1) \o <<DigitChar(n % 10)>>

RECURSIVE StripZeros(_)
StripZeros(s) == IF Len(s) > 0 /\ s[Len(s)] = "0" THEN StripZeros(SubSeq(s, 1, Len(s) - 1)) ELSE s

\* the decimal exponent X of n/d > 0: 10^X <= n/d < 10^(X+1), searched from X
RECURSIVE Exp10(_, _, _)
Exp10(n, d, X) ==
    IF X >= 0
    THEN (IF n < d * Pow10(X) THEN Exp10(n, d, X - 1)
          ELSE IF n >= d * Pow10(X + 1) THEN Exp10(n, d, X + 1)
          ELSE X)
    ELSE (IF n * Pow10(-X) < d THEN Exp10(n, d, X - 1) ELSE X)

\* q + r/d >= 0 rounded to the nearest integer, ties to even
RoundHalfEven(q, r, d) ==
    IF 2 * r < d THEN q
    ELSE IF 2 * r > d THEN q + 1
    ELSE IF q % 2 = 0 THEN q ELSE q + 1

\* long division: k more decimal digits of (q + r/d), as <<quotient, remainder>>
RECURSIVE ScaleDiv(_, _, _, _)
ScaleDiv(q, r, d, k) ==
    IF k = 0 THEN <<q, r>> ELSE ScaleDiv(q * 10 + (r * 10) \div d, (r * 10) % d, d, k - 1)

\* %g of n/d > 0
FormatG(n, d) ==
    Let(Exp10(n, d, 0), LAMBDA X0 :
    Let(IF X0 <= 5 THEN d ELSE d * Pow10(X0 - 5), LAMBDA dd :
    Let(IF X0 <= 5 THEN ScaleDiv(n \div d, n % d, d, 5 - X0) ELSE <<n \div dd, n % dd>>,
        LAMBDA sd :
    Let(RoundHalfEven(sd[1], sd[2], dd), LAMBDA m0 :
    Let(IF m0 = 1000000 THEN X0 + 1 ELSE X0, LAMBDA X :
    Let(IF m0 = 1000000 THEN 100000 ELSE m0, LAMBDA m :
    Let(IF 5 - X > 0 THEN 5 - X ELSE 0, LAMBDA w :      \* fixed notation: digits after the point
    Let(StripZeros(PadDigits(m % Pow10(w), w)), LAMBDA fp :
    Let(StripZeros(PadDigits(m % 100000, 5)), LAMBDA sf :   \* scientific: digits after the point
        IF X < -4 \/ X >= 6
        THEN <<DigitChar(m \div 100000)>> \o (IF sf = <<>> THEN <<>> ELSE <<".">> \o sf)
             \o <<"e", IF X < 0 THEN "-" ELSE "+">>
             \o (IF Abs(X) < 10 THEN <<"0">> ELSE <<>>) \o NatToStr(Abs(X))
        ELSE NatToStr(m \div Pow10(5 - X)) \o (IF fp = <<>> THEN <<>> ELSE <<".">> \o fp))))))))))

\* oss << std::get<double>(data)
DoubleToStr(x) ==
    IF x.k = "nan" THEN <<"n", "a", "n">>
    ELSE IF x.k = "inf" THEN (IF x.n < 0 THEN <<"-", "i", "n", "f">> ELSE <<"i", "n", "f">>)
    ELSE IF x.n = 0 THEN <<"0">>
    ELSE (IF x.n < 0 THEN <<"-">> ELSE <<>>) \o FormatG(Abs(x.n), x.d)

(***************************************************************************)
(* strtod / std::stod: the longest numeric prefix after leading white      *)
(* space.  Decimal forms with an optional exponent, and inf / infinity /   *)
(* nan in any letter case, are modelled; hexadecimal forms are not.        *)
(***************************************************************************)
\* the number of leading characters of s, from 0-based position p, that lie in set cs
RECURSIVE RunLen(_, _, _)
RunLen(s, p, cs) == IF p < Len(s) /\ s[p + 1] \in cs THEN 1 + RunLen(s, p + 1, cs) ELSE 0

\* the value of the digit string s[p .. p+n-1]
RECURSIVE DigitsVal(_, _, _)
DigitsVal(s, p, n) == IF n = 0 THEN 0 ELSE DigitsVal(s, p, n - 1) * 10 + DigitVal(s[p + n])

\* does s, from position p, spell word w, ignoring letter case (w given in lower case)
MatchesNoCase(s, p, w) ==
    /\ p + Len(w) <= Len(s)
    /\ \A i \in 1 .. Len(w) :
          \E j \in 1 .. 26 : /\ w[i] = <<"a","b","c","d","e","f","g","h","i","j","k","l","m",
                                        "n","o","p","q","r","s","t","u","v","w","x","y","z">>[j]
                             /\ s[p + i] \in {w[i],
                                      <<"A","B","C","D","E","F","G","H","I","J","K","L","M",
                                        "N","O","P","Q","R","S","T","U","V","W","X","Y","Z">>[j]}

\* [ok, val]: ok is whether any conversion was performed
strtod(s) ==
    Let(RunLen(s, 0, {" ", "\t", "\n", "\r", "\f"}), LAMBDA p0 :
    Let(IF At(s, p0) \in {"+", "-"} THEN p0 + 1 ELSE p0, LAMBDA p1 :
    Let(RunLen(s, p1, Digits), LAMBDA ni :
    Let(IF At(s, p1 + ni) = "." THEN RunLen(s, p1 + ni + 1, Digits) ELSE 0, LAMBDA nf :
    Let(p1 + ni + (IF At(s, p1 + ni) = "." THEN 1 + nf ELSE 0), LAMBDA p2 :
    Let(IF At(s, p2 + 1) \in {"+", "-"} THEN p2 + 2 ELSE p2 + 1, LAMBDA p3 :
    Let(IF At(s, p2) \in {"e", "E"} THEN RunLen(s, p3, Digits) ELSE 0, LAMBDA ne :
    Let(Frac(DigitsVal(s, p1, ni) * Pow10(nf) + DigitsVal(s, p1 + ni + 1, nf), Pow10(nf)),
        LAMBDA mant :
    Let(IF ne = 0 THEN mant
        ELSE IF At(s, p2 + 1) = "-" THEN Frac(mant.n, mant.d * Pow10(DigitsVal(s, p3, ne)))
        ELSE Frac(mant.n * Pow10(DigitsVal(s, p3, ne)), mant.d), LAMBDA mag :
        IF ni + nf > 0
        THEN [ok |-> TRUE, val |-> IF At(s, p0) = "-" THEN DNeg(mag) ELSE mag]
        ELSE IF MatchesNoCase(s, p1, <<"i", "n", "f">>)
             THEN [ok |-> TRUE, val |-> Infinity(IF At(s, p0) = "-" THEN -1 ELSE 1)]
        ELSE IF MatchesNoCase(s, p1, <<"n", "a", "n">>) THEN [ok |-> TRUE, val |-> quiet_NaN]
        ELSE [ok |-> FALSE, val |-> Dbl(0)])))))))))

(***************************************************************************)
(* TS::Value: a type tag and a std::variant<double, std::string, bool>.    *)
(* alt names the alternative the variant holds; the fields of the other    *)
(* alternatives are kept at fixed defaults.                                *)
(***************************************************************************)
ValueType == {"Number", "String", "Boolean", "Null", "Undefined", "NaN"}

\* Value::Value()
NullValue == [type |-> "Null", alt |-> "bool", num |-> Dbl(0), str |-> <<>>, bool |-> FALSE]

\* Value::Value(double num)
NumberValue(x) == [type |-> "Number", alt |-> "double", num |-> x, str |-> <<>>, bool |-> FALSE]

\* Value::Value(const std::string &str)
StringValue(s) == [type |-> "String", alt |-> "string", num |-> Dbl(0), str |-> s, bool |-> FALSE]

\* Value::Value(bool b)
BoolValue(b) == [type |-> "Boolean", alt |-> "bool", num |-> Dbl(0), str |-> <<>>, bool |-> b]

\* a.data == b.data on the variants
DataEq(a, b) ==
    /\ a.alt = b.alt
    /\ CASE a.alt = "double" -> DEq(a.num, b.num)
         [] a.alt = "string" -> a.str = b.str
         [] a.alt = "bool"   -> a.bool = b.bool

\* Value::toString
toString(v) ==
    CASE v.type = "Number"    -> DoubleToStr(v.num)
      [] v.type = "String"    -> v.str
      [] v.type = "Boolean"   -> IF v.bool THEN <<"t", "r", "u", "e">> ELSE <<"f", "a", "l", "s", "e">>
      [] v.type = "NaN"       -> <<"N", "a", "N">>
      [] v.type = "Undefined" -> <<"u", "n", "d", "e", "f", "i", "n", "e", "d">>
      [] OTHER                -> <<"n", "u", "l", "l">>

\* Value::toNumber
toNumber(v) ==
    CASE v.type = "Number"  -> v.num
      [] v.type = "String"  -> strtod(v.str).val
      [] v.type = "Boolean" -> IF v.bool THEN Dbl(1) ELSE Dbl(0)
      [] OTHER              -> Dbl(0)

\* Value::toBool
toBool(v) ==
    CASE v.type = "Boolean" -> v.bool
      [] v.type = "Number"  -> ~DEq(v.num, Dbl(0))
      [] v.type = "String"  -> v.str # <<>>
      [] OTHER              -> FALSE

\* TS::setVar
setVar(env, name, value) ==
    [x \in DOMAIN env \cup {name} |-> IF x = name THEN value ELSE env[x]]

\* TS::getVar: found, and the value when found
getVar(env, name) ==
    IF name \in DOMAIN env THEN [found |-> TRUE, val |-> env[name]]
    ELSE [found |-> FALSE, val |-> NullValue]

(***************************************************************************)
(* evalSimpleExpression, part 1: the tokenizer lambda                      *)
(***************************************************************************)
IdentStart(c) == isalpha(c) \/ c = "_" \/ c = "$"

IdentChars == Lower \cup Upper \cup Digits \cup {"_", "."}

\* the length of the string literal opening at position i: up to and including
\* the first later quote character not preceded by a backslash, else to the end
RECURSIVE LiteralLen(_, _, _)
LiteralLen(s, i, j) ==
    IF j >= Len(s) THEN j - i
    ELSE IF s[j + 1] = s[i + 1] /\ s[j] # "\\" THEN j - i + 1
    ELSE LiteralLen(s, i, j + 1)

\* the for loop of tokenize from position i on.  hang: the loop never ends,
\* which happens at a '$': the identifier branch is entered, its while loop
\* consumes nothing, and --i / ++i return to the same character for ever,
\* pushing an empty token each time round.
RECURSIVE tokenizeFrom(_, _)
tokenizeFrom(s, i) ==
    IF i >= Len(s) THEN [hang |-> FALSE, tokens |-> <<>>]
    ELSE LET c == s[i + 1] IN
         IF isspace(c) THEN tokenizeFrom(s, i + 1)
         ELSE IF isdigit(c) \/ (c = "." /\ i + 1 < Len(s) /\ isdigit(s[i + 2]))
         THEN LET n == RunLen(s, i, Digits \cup {"."})
                  r == tokenizeFrom(s, i + n)
              IN  [r EXCEPT !.tokens = <<substr(s, i, n)>> \o @]
         ELSE IF IdentStart(c)
         THEN LET n == RunLen(s, i, IdentChars)
                  r == tokenizeFrom(s, i + n)
              IN  IF n = 0 THEN [hang |-> TRUE, tokens |-> <<>>]
                  ELSE [r EXCEPT !.tokens = <<substr(s, i, n)>> \o @]
         ELSE IF c \in {"\"", "'"}
         THEN LET n == LiteralLen(s, i, i + 1)
                  r == tokenizeFrom(s, i + n)
              IN  [r EXCEPT !.tokens = <<substr(s, i, n)>> \o @]
         ELSE LET r == tokenizeFrom(s, i + 1)
              IN  [r EXCEPT !.tokens = <<<<c>>>> \o @]

tokenize(s) == tokenizeFrom(s, 0)

(***************************************************************************)
(* evalSimpleExpression, part 2: precedence, isOperator, shunting yard     *)
(***************************************************************************)
precedence(op) ==
    CASE op = <<"*", "*">> -> 7
      [] op \in {<<"*">>, <<"/">>, <<"%">>} -> 6
      [] op \in {<<"+">>, <<"-">>} -> 5
      [] op \in {<<"<">>, <<">">>, <<"<", "=">>, <<">", "=">>} -> 4
      [] op \in {<<"=", "=">>, <<"!", "=">>, <<"=", "=", "=">>, <<"!", "=", "=">>} -> 3
      [] op = <<"&", "&">> -> 2
      [] op = <<"|", "|">> -> 1
      [] OTHER -> -1

\* the sixteen operator spellings compared against in isOperator
OperatorTokens ==
    {<<"+">>, <<"-">>, <<"*">>, <<"/">>, <<"%">>, <<"=", "=">>, <<"!", "=">>, <<"<">>, <<">">>,
     <<"<", "=">>, <<">", "=">>, <<"&", "&">>, <<"|", "|">>, <<"*", "*">>,
     <<"=", "=", "=">>, <<"!", "=", "=">>}

\* the C++ comma operator: the left operand is evaluated and discarded
CommaOperator(left, right) == right

\* a string literal converted to bool: a non-null pointer
StringLiteralAsBool == TRUE

\* isOperator: `return tok == "+" || ... || tok == "!==", "=", "+=", "-=", "*=", "/=", "%=";`
\* The disjunction is the left operand of a chain of comma operators, so the
\* lambda returns the last string literal, which every caller tests as a bool.
isOperator(tok) == CommaOperator(tok \in OperatorTokens, StringLiteralAsBool)

Top(stack) == stack[Len(stack)]

Pop(stack) == SubSeq(stack, 1, Len(stack) - 1)

\* the while loops that move operators from ops to output: pop while stop(top) is false
RECURSIVE PopUntilParen(_)
PopUntilParen(y) ==
    IF y.ops # <<>> /\ Top(y.ops) # <<"(">>
    THEN PopUntilParen([y EXCEPT !.output = Append(@, Top(y.ops)), !.ops = Pop(@)])
    ELSE y

RECURSIVE PopHigher(_, _)
PopHigher(y, tok) ==
    IF y.ops # <<>> /\ isOperator(Top(y.ops)) /\ precedence(Top(y.ops)) >= precedence(tok)
    THEN PopHigher([y EXCEPT !.output = Append(@, Top(y.ops)), !.ops = Pop(@)], tok)
    ELSE y

RECURSIVE PopAll(_)
PopAll(y) ==
    IF y.ops # <<>>
    THEN PopAll([y EXCEPT !.output = Append(@, Top(y.ops)), !.ops = Pop(@)])
    ELSE y

\* std::to_string(int), argc >= 0
to_string(n) == NatToStr(n)

\* one iteration of the shunting-yard for loop, on token i (0-based) of tokens
yardStep(tokens, i, y) ==
    LET tok == tokens[i + 1]
        c0  == tok[1]
    IN  IF isdigit(c0) \/ c0 = "\"" \/ c0 = "'" \/ isalpha(c0) \/ c0 = "_" \/ c0 = "$"
        THEN (IF i + 1 < Len(tokens) /\ tokens[i + 2] = <<"(">>
              THEN [y EXCEPT !.ops = Append(@, tok)]
              ELSE [y EXCEPT !.output = Append(@, tok)])
        ELSE IF tok = <<",">>
        THEN LET z == PopUntilParen(y)
             IN  IF z.argCount # <<>>
                 THEN [z EXCEPT !.argCount[Len(z.argCount)] = @ + 1]
                 ELSE z
        ELSE IF isOperator(tok)
        THEN [PopHigher(y, tok) EXCEPT !.ops = Append(@, tok)]
        ELSE IF tok = <<"(">>
        THEN LET p0 == tokens[i][1]
             IN  IF i > 0 /\ (isalpha(p0) \/ p0 = "_" \/ p0 = "$")
                 THEN [y EXCEPT !.ops = Append(@, tok), !.argCount = Append(@, 1)]
                 ELSE [y EXCEPT !.ops = Append(@, tok)]
        ELSE IF tok = <<")">>
        THEN LET z1 == PopUntilParen(y)
                 z2 == IF z1.ops # <<>> /\ Top(z1.ops) = <<"(">> THEN [z1 EXCEPT !.ops = Pop(@)] ELSE z1
             IN  IF z2.ops # <<>> /\ ~isOperator(Top(z2.ops)) /\ Top(z2.ops) # <<"(">>
                 THEN LET argc == IF z2.argCount # <<>> THEN Top(z2.argCount) ELSE 0
                      IN  [z2 EXCEPT !.ops = Pop(@),
                                     !.argCount = IF @ # <<>> THEN Pop(@) ELSE @,
                                     !.output = @ \o <<<<"#">> \o to_string(argc),
                                                       <<"@">> \o Top(z2.ops)>>]
                 ELSE z2
        ELSE y

RECURSIVE yardLoop(_, _, _)
yardLoop(tokens, i, y) ==
    IF i >= Len(tokens) THEN y ELSE yardLoop(tokens, i + 1, yardStep(tokens, i, y))

\* the postfix sequence `output` built from the tokens
shuntingYard(tokens) ==
    PopAll(yardLoop(tokens, 0, [output |-> <<>>, ops |-> <<>>, argCount |-> <<>>])).output

(***************************************************************************)
(* The process state P threaded through the interpreter:                   *)
(*   cin   the unread lines of standard input (OS::readLine)               *)
(*   out   the characters written so far (OS::print, OS::printLine)        *)
(*   k     "ok"; "crash": killed by a signal; "throw": a C++ exception is  *)
(*         propagating, what is its what()                                 *)
(*   ub    whether undefined behaviour has been executed                   *)
(***************************************************************************)
\* OS::print
print(P, msg) == [P EXCEPT !.out = @ \o msg]

\* OS::printLine
printLine(P, msg) == [P EXCEPT !.out = @ \o msg \o <<"\n">>]

\* throw std::runtime_error(msg) and the like
throw(P, msg) == [P EXCEPT !.k = "throw", !.what = msg]

\* the process dies (SIGSEGV, stack exhaustion, out of memory)
crash(P) == [P EXCEPT !.k = "crash"]

\* What a read of memory that holds no live Value can yield when the process
\* survives the read: any Value.  The model draws from these samples.
GarbageValues ==
    {NullValue,
     [NullValue EXCEPT !.type = "Undefined"],
     [NullValue EXCEPT !.type = "NaN"],
     NumberValue(Dbl(0)), NumberValue(Dbl(1)), NumberValue(quiet_NaN),
     StringValue(<<>>), StringValue(<<"a">>),
     BoolValue(TRUE), BoolValue(FALSE)}

(***************************************************************************)
(* evalSimpleExpression, part 3: applyOpVal                                *)
(***************************************************************************)
applyOpVal(op, a, b) ==
    LET x == toNumber(a)
        y == toNumber(b)
    IN  CASE op = <<"+">> ->
                IF a.type = "String" \/ b.type = "String"
                THEN StringValue(toString(a) \o toString(b))
                ELSE NumberValue(DAdd(x, y))
          [] op = <<"-">> -> NumberValue(DSub(x, y))
          [] op = <<"*">> -> NumberValue(DMul(x, y))
          [] op = <<"/">> -> NumberValue(IF DIsZero(y) THEN quiet_NaN ELSE DDiv(x, y))
          [] op = <<"%">> -> NumberValue(DFmod(x, y))
          [] op = <<"=", "=">> -> BoolValue(DataEq(a, b))
          [] op = <<"!", "=">> -> BoolValue(~DataEq(a, b))
          [] op = <<"=", "=", "=">> -> BoolValue(a.type = b.type /\ DataEq(a, b))
          [] op = <<"!", "=", "=">> -> BoolValue(a.type # b.type \/ ~DataEq(a, b))
          [] op = <<"<">> -> BoolValue(DLt(x, y))
          [] op = <<">">> -> BoolValue(DLt(y, x))
          [] op = <<"<", "=">> -> BoolValue(~DLt(y, x) /\ x.k # "nan" /\ y.k # "nan")
          [] op = <<">", "=">> -> BoolValue(~DLt(x, y) /\ x.k # "nan" /\ y.k # "nan")
          [] op = <<"&", "&">> -> BoolValue(toBool(a) /\ toBool(b))
          [] op = <<"|", "|">> -> BoolValue(toBool(a) \/ toBool(b))
          [] op = <<"*", "*">> -> NumberValue(DPow(x, y))
          [] OTHER -> NullValue

(***************************************************************************)
(* evalSimpleExpression, part 4: the postfix stack machine.  A machine     *)
(* state m is [vals, p]: the operand stack and the process state.  Every   *)
(* step yields the set of machine states it can lead to: vals.top() and    *)
(* vals.pop() on an empty std::stack are undefined behaviour, which either *)
(* kills the process or reads some Value from below the stack.             *)
(***************************************************************************)
\* `x = vals.top(); vals.pop();`
PopValue(vals) ==
    IF vals # <<>>
    THEN {[v |-> Top(vals), vals |-> Pop(vals), ub |-> FALSE]}
    ELSE {[v |-> g, vals |-> <<>>, ub |-> TRUE] : g \in GarbageValues}

\* the loop `for (j = argc - 1; j >= 0; --j) { args[j] = vals.top(); vals.pop(); }`
RECURSIVE PopArgs(_, _)
PopArgs(vals, n) ==
    IF n = 0 THEN {[args |-> <<>>, vals |-> vals, ub |-> FALSE]}
    ELSE UNION {{[args |-> Append(q.args, r.v), vals |-> q.vals, ub |-> r.ub \/ q.ub]
                    : q \in PopArgs(r.vals, n - 1)}
                 : r \in PopValue(vals)}

\* the isOperator branch of the loop
rpnOperator(m, tok) ==
    UNION {{[m EXCEPT !.vals = Append(ra.vals, applyOpVal(tok, ra.v, rb.v)),
                      !.p.ub = @ \/ ra.ub \/ rb.ub]
               : ra \in PopValue(rb.vals)}
            : rb \in PopValue(m.vals)}
    \cup (IF Len(m.vals) < 2 THEN {[m EXCEPT !.p = crash([@ EXCEPT !.ub = TRUE])]} ELSE {})

RECURSIVE evalSimpleExpression(_, _, _, _, _)
RECURSIVE invoke(_, _, _, _, _)
RECURSIVE executeLine(_, _, _, _)

\* the '@' (function marker) branch of the loop
rpnCall(output, i, m, callables, depth) ==
    LET tok    == output[i + 1]
        fname  == substrFrom(tok, 1)
        marker == i > 0 /\ At(output[i], 0) = "#"
        nd     == IF marker THEN RunLen(output[i], 1, Digits) ELSE 0
        argc   == DigitsVal(output[i], 1, nd)
        known  == \/ fname \in callables.builtins
                  \/ callables.user /\ fname \in DOMAIN callables.c.userFunctions
    IN  IF marker /\ nd = 0
        THEN {[m EXCEPT !.p = throw(@, <<"s","t","o","i">>)]}
        ELSE UNION {IF known
                    THEN {[vals |-> Append(r.vals, q.val), p |-> q.p]
                             : q \in invoke(callables, fname, r.args,
                                            [m.p EXCEPT !.ub = @ \/ r.ub], depth)}
                    ELSE {[vals |-> Append(r.vals, NullValue),
                           p |-> [m.p EXCEPT !.ub = @ \/ r.ub]]}
                      : r \in PopArgs(m.vals, argc)}
             \cup (IF Len(m.vals) < argc
                   THEN {[m EXCEPT !.p = crash([@ EXCEPT !.ub = TRUE])]} ELSE {})

\* the literal and identifier branches of the loop
rpnOperand(m, tok, env) ==
    LET push(v) == [m EXCEPT !.vals = Append(@, v)]
    IN  IF (tok[1] = "\"" /\ tok[Len(tok)] = "\"") \/ (tok[1] = "'" /\ tok[Len(tok)] = "'")
        THEN push(StringValue(substr(tok, 1, Wrap(Len(tok) - 2))))
        ELSE IF tok = <<"t","r","u","e">> THEN push(BoolValue(TRUE))
        ELSE IF tok = <<"f","a","l","s","e">> THEN push(BoolValue(FALSE))
        ELSE IF tok = <<"u","n","d","e","f","i","n","e","d">> \/ tok = <<"n","u","l","l">> THEN push(NullValue)
        ELSE IF tok = <<"N","a","N">> THEN push(NumberValue(quiet_NaN))
        ELSE IF strtod(tok).ok THEN push(NumberValue(strtod(tok).val))
        ELSE IF tok \in DOMAIN env THEN push(env[tok])
        ELSE push(NullValue)

\* one iteration of the evaluation loop on a machine state that is still running
rpnStep(output, i, m, env, callables, depth) ==
    LET tok == output[i + 1]
    IN  IF m.p.k # "ok" THEN {m}
        ELSE IF isOperator(tok) THEN rpnOperator(m, tok)
        ELSE IF tok # <<>> /\ tok[1] = "@" THEN rpnCall(output, i, m, callables, depth)
        ELSE IF tok # <<>> /\ tok[1] = "#" THEN {m}
        ELSE {rpnOperand(m, tok, env)}

RECURSIVE rpnLoop(_, _, _, _, _, _)
rpnLoop(output, i, ms, env, callables, depth) ==
    IF i >= Len(output) THEN ms
    ELSE rpnLoop(output, i + 1,
                 UNION {rpnStep(output, i, m, env, callables, depth) : m \in ms},
                 env, callables, depth)

\* evalSimpleExpression(expr, env, builtins): the set of outcomes [p, val].
\* callables is the third argument: [builtins, user, c], the builtin names, whether
\* the user-function wrappers were merged in, and the Context they capture.
evalSimpleExpression(expr, env, callables, P, depth) ==
    LET t == tokenize(expr)
    IN  IF t.hang
        THEN {[p |-> crash(P), val |-> NullValue],
              [p |-> throw(P, <<"s","t","d",":",":","b","a","d","_","a","l","l","o","c">>), val |-> NullValue]}
        ELSE {[p |-> m.p, val |-> IF m.p.k = "ok" /\ m.vals # <<>> THEN Top(m.vals) ELSE NullValue]
                 : m \in rpnLoop(shuntingYard(t.tokens), 0, {[vals |-> <<>>, p |-> P]},
                                 env, callables, depth)}

(***************************************************************************)
(* Context and callables.  A Context C is [variables, userFunctions,       *)
(* isGlobal, genv]: isGlobal tells whether C is the process-wide Context   *)
(* of setup.cpp (the one init() installed the builtins on) and genv holds  *)
(* that Context's variables when C is a copy made for a call.              *)
(***************************************************************************)
\* the names init() registers in ctx.builtins
BuiltinNames ==
    {<<"c","o","n","s","o","l","e",".","l","o","g">>, <<"M","a","t","h",".","s","q","r","t">>, <<"M","a","t","h",".","s","i","n">>, <<"M","a","t","h",".","c","o","s">>, <<"M","a","t","h",".","t","a","n">>, <<"M","a","t","h",".","p","o","w">>,
     <<"M","a","t","h",".","r","a","n","d","o","m">>, <<"M","a","t","h",".","a","b","s">>, <<"M","a","t","h",".","f","l","o","o","r">>, <<"M","a","t","h",".","r","o","u","n","d">>, <<"M","a","t","h",".","c","e","i","l">>, <<"M","a","t","h",".","t","r","u","n","c">>,
     <<"M","a","t","h",".","e","x","p">>, <<"M","a","t","h",".","l","o","g">>, <<"M","a","t","h",".","a","t","a","n">>, <<"M","a","t","h",".","a","s","i","n">>, <<"M","a","t","h",".","a","c","o","s">>, <<"M","a","t","h",".","a","t","a","n","2">>,
     <<"M","a","t","h",".","m","a","x">>, <<"M","a","t","h",".","m","i","n">>, <<"s","i","z","e","o","f">>, <<"a","s","s","e","r","t">>}

\* ctx.variables after init(): NaN, undefined, Math.PI, Math.E
InitVariables ==
    (<<"N","a","N">> :> NumberValue(quiet_NaN)) @@ (<<"u","n","d","e","f","i","n","e","d">> :> NullValue) @@
    (<<"M","a","t","h",".","P","I">> :> NumberValue(Frac(314159265, 100000000))) @@
    (<<"M","a","t","h",".","E">> :> NumberValue(Frac(271828183, 100000000)))

\* the variables of the Context that the assert builtin captured by reference
GlobalEnv(C) == IF C.isGlobal THEN C.variables ELSE C.genv

\* `Context localCtx = ctx;`
CopyContext(C) == [C EXCEPT !.isGlobal = FALSE, !.genv = GlobalEnv(C)]

\* the loop `for (i ...) setVar(localCtx.variables, def.params[i], args[i]);`
RECURSIVE BindParams(_, _, _, _)
BindParams(env, params, args, i) ==
    IF i >= Len(params) THEN env
    ELSE BindParams(setVar(env, params[i + 1], args[i + 1]), params, args, i + 1)

\* how deep user-function calls may nest before the native stack is exhausted
MaxCallDepth == 3

\* the values the model lets an uncomputed double take (transcendental functions, rand())
OpaqueDoubles == {Dbl(0), Dbl(1), quiet_NaN}

\* floor of a double
DFloor(x) == IF x.k # "fin" THEN x ELSE Dbl(x.n \div x.d)

\* ceil of a double
DCeil(x) == IF x.k # "fin" THEN x ELSE Dbl(-((-x.n) \div x.d))

\* std::max(m, x) and std::min(m, x)
DMax(m, x) == IF DLt(m, x) THEN x ELSE m

DMin(m, x) == IF DLt(x, m) THEN x ELSE m

RECURSIVE FoldMax(_, _, _)
FoldMax(m, nums, i) ==
    IF i > Len(nums) THEN m ELSE FoldMax(DMax(m, nums[i]), nums, i + 1)

RECURSIVE FoldMin(_, _, _)
FoldMin(m, nums, i) ==
    IF i > Len(nums) THEN m ELSE FoldMin(DMin(m, nums[i]), nums, i + 1)

\* the text console.log prints before the line break: the arguments, space-separated
RECURSIVE JoinArgs(_, _)
JoinArgs(args, i) ==
    IF i > Len(args) THEN <<>>
    ELSE toString(args[i]) \o (IF i < Len(args) THEN <<" ">> ELSE <<>>) \o JoinArgs(args, i + 1)

\* the builtins whose result is a double computed from the arguments alone
mathBuiltin(fname, args) ==
    LET nums == [i \in 1..Len(args) |-> toNumber(args[i])]   \* args[i].toNumber()
        x == nums[1]
        y == nums[2]
        nanIfEmpty  == {<<"M","a","t","h",".","s","q","r","t">>, <<"M","a","t","h",".","s","i","n">>, <<"M","a","t","h",".","c","o","s">>, <<"M","a","t","h",".","t","a","n">>, <<"M","a","t","h",".","a","b","s">>}
        opaque == {<<"M","a","t","h",".","s","q","r","t">>, <<"M","a","t","h",".","s","i","n">>, <<"M","a","t","h",".","c","o","s">>, <<"M","a","t","h",".","t","a","n">>, <<"M","a","t","h",".","e","x","p">>,
                   <<"M","a","t","h",".","l","o","g">>, <<"M","a","t","h",".","a","t","a","n">>, <<"M","a","t","h",".","a","s","i","n">>, <<"M","a","t","h",".","a","c","o","s">>, <<"s","i","z","e","o","f">>}
    IN  IF fname = <<"M","a","t","h",".","r","a","n","d","o","m">> THEN OpaqueDoubles
        ELSE IF fname = <<"M","a","t","h",".","p","o","w">>
             THEN (IF Len(args) < 2 THEN {quiet_NaN}
                   ELSE IF y.k = "fin" /\ y.d # 1 /\ DSign(x) > 0
                        THEN OpaqueDoubles
                   ELSE {DPow(x, y)})
        ELSE IF fname \in {<<"M","a","t","h",".","m","a","x">>, <<"M","a","t","h",".","m","i","n">>}
             THEN (IF args = <<>> THEN {Infinity(-1)}
                   ELSE IF fname = <<"M","a","t","h",".","m","a","x">> THEN {FoldMax(x, nums, 2)}
                   ELSE {FoldMin(x, nums, 2)})
        ELSE IF args = <<>> THEN (IF fname \in nanIfEmpty THEN {quiet_NaN} ELSE {Dbl(0)})
        ELSE IF fname \in opaque THEN OpaqueDoubles
        ELSE IF fname = <<"M","a","t","h",".","a","b","s">> THEN {IF x.k = "nan" THEN x ELSE [x EXCEPT !.n = Abs(x.n)]}
        ELSE IF fname = <<"M","a","t","h",".","f","l","o","o","r">> THEN {DFloor(x)}
        ELSE IF fname = <<"M","a","t","h",".","c","e","i","l">> THEN {DCeil(x)}
        ELSE IF fname = <<"M","a","t","h",".","t","r","u","n","c">> THEN {IF x.k # "fin" THEN x ELSE Dbl(TruncDiv(x.n, x.d))}
        ELSE IF fname = <<"M","a","t","h",".","r","o","u","n","d">>
             THEN {IF x.k # "fin" THEN x
                   ELSE Dbl(Sign(x.n) * ((2 * Abs(x.n) + x.d) \div (2 * x.d)))}
        ELSE OpaqueDoubles     \* Math.atan2 with both arguments present

\* the builtin registered under fname, called with args: the set of outcomes [p, val]
callBuiltin(fname, args, C, P, depth) ==
    IF fname = <<"c","o","n","s","o","l","e",".","l","o","g">>
    THEN {[p |-> printLine(print(P, JoinArgs(args, 1)), <<>>), val |-> NullValue]}
    ELSE IF fname = <<"a","s","s","e","r","t">>
    THEN (IF args = <<>>
          THEN {[p |-> throw(P, <<"a","s","s","e","r","t","(",")"," ","c","a","l","l","e","d"," ","w","i","t","h"," ","n","o"," ","a","r","g","u","m","e","n","t","s">>), val |-> NullValue]}
          ELSE {IF r.p.k # "ok" THEN r
                ELSE IF ~toBool(r.val)
                THEN [p |-> throw(r.p, <<"A","s","s","e","r","t","i","o","n"," ","f","a","i","l","e","d">> \o
                                       (IF Len(args) > 1 THEN <<":"," ">> \o toString(args[2]) ELSE <<>>)),
                      val |-> NullValue]
                ELSE [p |-> r.p, val |-> BoolValue(TRUE)]
                  : r \in evalSimpleExpression(toString(args[1]), GlobalEnv(C),
                                               [builtins |-> BuiltinNames, user |-> FALSE, c |-> C],
                                               P, depth)})
    ELSE IF fname = <<"M","a","t","h",".","a","t","a","n","2">> /\ Len(args) = 1
    \* args[1] is read past the end of the vector
    THEN {[p |-> [P EXCEPT !.ub = TRUE], val |-> NumberValue(x)] : x \in OpaqueDoubles}
         \cup {[p |-> crash([P EXCEPT !.ub = TRUE]), val |-> NullValue]}
    ELSE {[p |-> P, val |-> NumberValue(x)] : x \in mathBuiltin(fname, args)}

\* the body loop of the wrapper lambda from body line j (0-based) on
RECURSIVE wrapperBody(_, _, _, _, _)
wrapperBody(body, j, L, P, depth) ==
    IF P.k # "ok" \/ j >= Len(body) THEN {[p |-> P, val |-> NullValue]}
    ELSE LET trimmed == trim(body[j + 1])
         IN  IF startsWith(trimmed, <<"r","e","t","u","r","n">>)
             THEN evalSimpleExpression(stripSemicolon(trim(substrFrom(trimmed, 6))), L.variables,
                                       [builtins |-> BuiltinNames, user |-> FALSE, c |-> L],
                                       P, depth)
             ELSE UNION {wrapperBody(body, j + 1, r.c, r.p, depth)
                           : r \in executeLine(body[j + 1], L, P, depth)}

\* the lambda that wraps user function `name` so that it looks like a builtin
wrapper(C, name, args, P, depth) ==
    LET def == C.userFunctions[name]
    IN  IF Len(args) # Len(def.params)
        THEN {[p |-> printLine(P, <<"E","r","r","o","r",":"," ","F","u","n","c","t","i","o","n"," ","'">> \o name \o <<"'"," ","e","x","p","e","c","t","s"," ">> \o
                                  to_string(Len(def.params)) \o <<" ","a","r","g","s",","," ","g","o","t"," ">> \o
                                  to_string(Len(args))),
               val |-> NullValue]}
        ELSE IF depth >= MaxCallDepth THEN {[p |-> crash(P), val |-> NullValue]}
        ELSE wrapperBody(def.bodyLines, 0,
                         [CopyContext(C) EXCEPT !.variables = BindParams(@, def.params, args, 0)],
                         P, depth + 1)

\* callables.find(fname)->second(args)
invoke(callables, fname, args, P, depth) ==
    IF callables.user /\ fname \in DOMAIN callables.c.userFunctions
    THEN wrapper(callables.c, fname, args, P, depth)
    ELSE callBuiltin(fname, args, callables.c, P, depth)

(***************************************************************************)
(* executeLine: helpers of the statement handlers                          *)
(***************************************************************************)
contains(s, ch) == find(s, ch, 0) # npos

\* std::getline(std::cin, line): OS::readLine on the process's standard input
readLine(P) ==
    IF P.cin = <<>> THEN [ok |-> FALSE, line |-> <<>>, p |-> P]
    ELSE [ok |-> TRUE, line |-> Head(P.cin), p |-> [P EXCEPT !.cin = Tail(@)]]

\* the pieces std::getline(pss, param, ',') yields, left to right
RECURSIVE splitOnComma(_)
splitOnComma(s) ==
    IF s = <<>> THEN <<>>
    ELSE LET c == find(s, ",", 0)
         IN  IF c = npos THEN <<s>> ELSE <<substr(s, 0, c)>> \o splitOnComma(substrFrom(s, c + 1))

\* the parameter loop: names and declared types, "any" when there is no annotation
RECURSIVE parseParams(_, _, _)
parseParams(pieces, i, def) ==
    IF i > Len(pieces) THEN def
    ELSE LET param    == trim(pieces[i])
             colonPos == find(param, ":", 0)
         IN  IF param = <<>> THEN parseParams(pieces, i + 1, def)
             ELSE IF colonPos # npos
             THEN parseParams(pieces, i + 1,
                              [def EXCEPT !.params = Append(@, trim(substr(param, 0, colonPos))),
                                          !.paramTypes = Append(@, trim(substrFrom(param, colonPos + 1)))])
             ELSE parseParams(pieces, i + 1,
                              [def EXCEPT !.params = Append(@, param),
                                          !.paramTypes = Append(@, <<"a","n","y">>)])

\* the loop `while (braceDepth > 0 && std::getline(std::cin, bodyLine))` of a function definition
RECURSIVE captureFunctionBody(_, _, _)
captureFunctionBody(P, braceDepth, bodyLines) ==
    LET rd      == readLine(P)
        trimmed == trim(rd.line)
        d1 == IF contains(trimmed, "{") THEN braceDepth + 1 ELSE braceDepth
        d2 == IF contains(trimmed, "}") THEN d1 - 1 ELSE d1
    IN  IF braceDepth <= 0 \/ ~rd.ok THEN [p |-> P, bodyLines |-> bodyLines]
        ELSE IF contains(trimmed, "}") /\ d2 <= 0 THEN [p |-> rd.p, bodyLines |-> bodyLines]
        ELSE captureFunctionBody(rd.p, d2,
                                 IF trimmed # <<>> /\ d2 > 0 THEN Append(bodyLines, trimmed)
                                 ELSE bodyLines)

\* a function header parsed into a FunctionDef, its body read from standard input
functionDef(header, P) ==
    LET nameStart  == Wrap(find(header, " ", 0) + 1)
        parenOpen  == find(header, "(", nameStart)
        parenClose == find(header, ")", parenOpen)
        paramsStr  == substr(header, Wrap(parenOpen + 1), Wrap(parenClose - parenOpen - 1))
        def0       == parseParams(splitOnComma(paramsStr), 1,
                                  [params |-> <<>>, paramTypes |-> <<>>, bodyLines |-> <<>>])
        braceOpen  == find(header, "{", parenClose)
        afterBrace == trim(substrFrom(header, braceOpen + 1))
        first      == IF braceOpen # npos /\ afterBrace # <<>> THEN <<afterBrace>> ELSE <<>>
        cap        == captureFunctionBody(P, IF braceOpen # npos THEN 1 ELSE 0, first)
    IN  [funcName |-> trim(substr(header, nameStart, Wrap(parenOpen - nameStart))),
         def |-> [def0 EXCEPT !.bodyLines = cap.bodyLines],
         p |-> cap.p]

\* the loop `while (depth > 0 && std::getline(std::cin, blockLine))` of an if statement
RECURSIVE captureIfBlock(_, _, _)
captureIfBlock(P, depth, blockLines) ==
    LET rd == readLine(P)
        d1 == IF contains(rd.line, "{") THEN depth + 1 ELSE depth
        d2 == IF contains(rd.line, "}") THEN d1 - 1 ELSE d1
    IN  IF depth <= 0 \/ ~rd.ok THEN [p |-> P, blockLines |-> blockLines]
        ELSE IF contains(rd.line, "}") /\ d2 = 0 THEN [p |-> rd.p, blockLines |-> blockLines]
        ELSE captureIfBlock(rd.p, d2, IF d2 > 0 THEN Append(blockLines, rd.line) ELSE blockLines)

\* the loop `while (std::getline(std::cin, el))` that reads an else block
RECURSIVE captureElseBlock(_, _, _)
captureElseBlock(P, edepth, elseBlock) ==
    LET rd == readLine(P)
        d1 == IF contains(rd.line, "{") THEN edepth + 1 ELSE edepth
        d2 == IF contains(rd.line, "}") THEN d1 - 1 ELSE d1
    IN  IF ~rd.ok THEN [p |-> P, blockLines |-> elseBlock]
        ELSE IF contains(rd.line, "}") /\ d2 = 0 THEN [p |-> rd.p, blockLines |-> elseBlock]
        ELSE captureElseBlock(rd.p, d2, IF d2 > 0 THEN Append(elseBlock, rd.line) ELSE elseBlock)

\* the loop `while (depth > 0 && std::getline(std::cin, bodyLine))` of a class
RECURSIVE captureClassBody(_, _, _)
captureClassBody(P, depth, bodyLines) ==
    LET rd == readLine(P)
        d1 == IF contains(rd.line, "{") THEN depth + 1 ELSE depth
        d2 == IF contains(rd.line, "}") THEN d1 - 1 ELSE d1
    IN  IF depth <= 0 \/ ~rd.ok THEN [p |-> P, bodyLines |-> bodyLines]
        ELSE IF contains(rd.line, "}") /\ d2 = 0 THEN [p |-> rd.p, bodyLines |-> bodyLines]
        ELSE captureClassBody(rd.p, d2, IF d2 > 0 THEN Append(bodyLines, trim(rd.line)) ELSE bodyLines)

\* one argument text of a statement-level call turned into a Value
parseArg(argTrimmed, env) ==
    IF argTrimmed = <<"t","r","u","e">> THEN BoolValue(TRUE)
    ELSE IF argTrimmed = <<"f","a","l","s","e">> THEN BoolValue(FALSE)
    ELSE IF argTrimmed = <<"n","u","l","l">> THEN NullValue
    ELSE IF strtod(argTrimmed).ok THEN NumberValue(strtod(argTrimmed).val)
    ELSE IF /\ Len(argTrimmed) >= 2
            /\ \/ argTrimmed[1] = "\"" /\ argTrimmed[Len(argTrimmed)] = "\""
               \/ argTrimmed[1] = "'" /\ argTrimmed[Len(argTrimmed)] = "'"
         THEN StringValue(substr(argTrimmed, 1, Len(argTrimmed) - 2))
    ELSE getVar(env, argTrimmed).val

\* the argument-splitting loop over argsStr from position i on; a is the loop's
\* state [args, currentArg, inString, stringChar, parenDepth]
RECURSIVE splitArgs(_, _, _, _)
splitArgs(argsStr, i, a, env) ==
    IF i >= Len(argsStr) THEN a
    ELSE LET c == argsStr[i + 1]
             argTrimmed == trim(a.currentArg)
         IN  splitArgs(argsStr, i + 1,
                IF c \in {"\"", "'"} /\ ~a.inString
                THEN [a EXCEPT !.inString = TRUE, !.stringChar = c, !.currentArg = Append(@, c)]
                ELSE IF a.inString /\ c = a.stringChar
                THEN [a EXCEPT !.inString = FALSE, !.currentArg = Append(@, c)]
                ELSE IF ~a.inString /\ c = "("
                THEN [a EXCEPT !.parenDepth = @ + 1, !.currentArg = Append(@, c)]
                ELSE IF ~a.inString /\ c = ")"
                THEN [a EXCEPT !.parenDepth = @ - 1, !.currentArg = Append(@, c)]
                ELSE IF ~a.inString /\ a.parenDepth = 0 /\ c = ","
                THEN [a EXCEPT !.currentArg = <<>>,
                               !.args = IF argTrimmed # <<>> THEN Append(@, parseArg(argTrimmed, env))
                                        ELSE @]
                ELSE [a EXCEPT !.currentArg = Append(@, c)],
                env)

\* the argument Values of a statement-level call
callArgs(argsStr, env) ==
    LET a == splitArgs(argsStr, 0, [args |-> <<>>, currentArg |-> <<>>, inString |-> FALSE,
                                     stringChar |-> "\\0", parenDepth |-> 0], env)
    IN  IF a.currentArg # <<>> /\ trim(a.currentArg) # <<>>
        THEN Append(a.args, parseArg(trim(a.currentArg), env))
        ELSE a.args

\* the runtime type check of a statement-level call: the 0-based index of the
\* first parameter whose declared type rejects its argument, or -1
RECURSIVE typeCheck(_, _, _)
typeCheck(def, args, i) ==
    IF i >= Len(def.params) THEN -1
    ELSE LET expectedType == def.paramTypes[i + 1]
             typeOk == \/ expectedType = <<"n","u","m","b","e","r">> /\ args[i + 1].type = "Number"
                       \/ expectedType = <<"s","t","r","i","n","g">> /\ args[i + 1].type = "String"
                       \/ expectedType = <<"b","o","o","l","e","a","n">> /\ args[i + 1].type = "Boolean"
         IN  IF expectedType # <<"a","n","y">> /\ ~typeOk THEN i ELSE typeCheck(def, args, i + 1)

(***************************************************************************)
(* executeLine: the statement handlers.  Each yields the set of outcomes   *)
(* [c, p]: the Context and the process state the statement leaves behind.  *)
(***************************************************************************)
\* the callable map a statement builds: ctx.builtins plus one wrapper per user function
mergedCallables(C) == [builtins |-> BuiltinNames, user |-> TRUE, c |-> C]

\* `for (auto &l : lines) executeLine(l, ctx);` from line j (0-based) on
RECURSIVE runLines(_, _, _, _, _)
runLines(body, j, C, P, depth) ==
    IF P.k # "ok" \/ j >= Len(body) THEN {[c |-> C, p |-> P]}
    ELSE UNION {runLines(body, j + 1, r.c, r.p, depth) : r \in executeLine(body[j + 1], C, P, depth)}

\* `catch (const std::exception &e)` of the let handler
catchException(P) ==
    printLine([P EXCEPT !.k = "ok", !.what = <<>>], <<"E","r","r","o","r"," ","e","v","a","l","u","a","t","i","n","g"," ","e","x","p","r","e","s","s","i","o","n",":"," ">> \o P.what)

\* let x = 10; or let x: any = 10;   (line still carries the "let " prefix)
letStatement(line0, C, P, depth) ==
    LET line    == substrFrom(line0, 4)
        eqPos   == find(line, "=", 0)
        name0   == trim(substr(line, 0, eqPos))
        colonPos == find(name0, ":", 0)
        varName == IF colonPos # npos THEN trim(substr(name0, 0, colonPos)) ELSE name0
        expr    == stripSemicolon(trim(substrFrom(line, eqPos + 1)))
    IN  IF eqPos = npos
        THEN {[c |-> C, p |-> printLine(P, <<"S","y","n","t","a","x","E","r","r","o","r",":"," ","M","i","s","s","i","n","g"," ","'","=","'"," ","i","n"," ","l","e","t"," ","s","t","a","t","e","m","e","n","t">>)]}
        ELSE IF name0 = <<>>
        THEN {[c |-> C, p |-> printLine(P, <<"S","y","n","t","a","x","E","r","r","o","r",":"," ","M","i","s","s","i","n","g"," ","v","a","r","i","a","b","l","e"," ","n","a","m","e">>)]}
        ELSE {IF r.p.k = "ok"
              THEN [c |-> [C EXCEPT !.variables = setVar(@, varName, r.val)], p |-> r.p]
              ELSE IF r.p.k = "throw" THEN [c |-> C, p |-> catchException(r.p)]
              ELSE [c |-> C, p |-> r.p]
                : r \in evalSimpleExpression(expr, C.variables, mergedCallables(C), P, depth)}

\* function name(param1, param2) { ... }
functionStatement(line, C, P) ==
    LET f == functionDef(line, P)
    IN  {[c |-> [C EXCEPT !.userFunctions =
                     [n \in DOMAIN @ \cup {f.funcName} |-> IF n = f.funcName THEN f.def ELSE @[n]]],
          p |-> f.p]}

\* the else branch of an if whose condition was false: peek one line for `else`
elseBranch(C, P, depth) ==
    LET rd   == readLine(P)
        cap  == captureElseBlock(rd.p, 0, <<>>)
    IN  IF rd.ok /\ startsWith(trim(rd.line), <<"e","l","s","e">>)
        THEN runLines(cap.blockLines, 0, C, cap.p, depth)
        ELSE {[c |-> C, p |-> rd.p]}

\* if (cond) { ... } with an optional else block
ifStatement(line, C, P, depth) ==
    LET condStart == find(line, "(", 0)
        condEnd   == find(line, ")", condStart)
        condExpr  == trim(substr(line, condStart + 1, Wrap(condEnd - condStart - 1)))
        braceStart == find(line, "{", condEnd)
    IN  IF condStart = npos \/ condEnd = npos
        THEN {[c |-> C, p |-> printLine(P, <<"S","y","n","t","a","x","E","r","r","o","r",":"," ","m","a","l","f","o","r","m","e","d"," ","i","f"," ","s","t","a","t","e","m","e","n","t">>)]}
        ELSE UNION {
               IF r.p.k # "ok" THEN {[c |-> C, p |-> r.p]}
               ELSE IF braceStart = npos
               THEN {[c |-> C, p |-> printLine(r.p, <<"S","y","n","t","a","x","E","r","r","o","r",":"," ","i","f"," ","w","i","t","h","o","u","t"," ","b","l","o","c","k">>)]}
               ELSE LET cap == captureIfBlock(r.p, 1, <<>>)
                    IN  IF toBool(r.val) THEN runLines(cap.blockLines, 0, C, cap.p, depth)
                        ELSE elseBranch(C, cap.p, depth)
                 : r \in evalSimpleExpression(condExpr, C.variables, mergedCallables(C), P, depth)}

\* one line of a class body: a static method, a static property, or nothing
classMember(bl, className, line, C, P, depth) ==
    LET rest  == trim(substrFrom(bl, 7))
        f     == functionDef(line, P)
        mName == className \o <<".">> \o trim(substr(rest, 0, find(rest, "(", 0)))
        eqPos == find(rest, "=", 0)
        propName == className \o <<".">> \o trim(substr(rest, 0, eqPos))
        expr  == stripSemicolon(trim(substrFrom(rest, eqPos + 1)))
    IN  IF ~startsWith(bl, <<"s","t","a","t","i","c"," ">>) THEN {[c |-> C, p |-> P]}
        ELSE IF contains(rest, "(")
        THEN {[c |-> [C EXCEPT !.userFunctions =
                         [n \in DOMAIN @ \cup {mName} |-> IF n = mName THEN f.def ELSE @[n]]],
               p |-> f.p]}
        ELSE IF contains(rest, "=")
        THEN {IF r.p.k = "ok"
              THEN [c |-> [C EXCEPT !.variables = setVar(@, propName, r.val)], p |-> r.p]
              ELSE [c |-> C, p |-> r.p]
                : r \in evalSimpleExpression(expr, C.variables, mergedCallables(C), P, depth)}
        ELSE {[c |-> C, p |-> P]}

\* `for (auto &bl : bodyLines)` of the class handler from member j (0-based) on
RECURSIVE classMembers(_, _, _, _, _, _, _)
classMembers(bodyLines, j, className, line, C, P, depth) ==
    IF P.k # "ok" \/ j >= Len(bodyLines) THEN {[c |-> C, p |-> P]}
    ELSE UNION {classMembers(bodyLines, j + 1, className, line, r.c, r.p, depth)
                  : r \in classMember(bodyLines[j + 1], className, line, C, P, depth)}

\* class Name { static ... }
classStatement(line, C, P, depth) ==
    LET nameEnd   == find(line, "{", 6)
        className == trim(substr(line, 6, Wrap(nameEnd - 6)))
        cap       == captureClassBody(P, IF contains(line, "{") THEN 1 ELSE 0, <<>>)
    IN  classMembers(cap.bodyLines, 0, className, line, C, cap.p, depth)

\* userCall with `Context &localCtx = ctx;`: the body runs on the caller's Context
userCallByReference(funcName, args, C, P, depth) ==
    LET def == C.userFunctions[funcName]
    IN  IF Len(args) # Len(def.params) \/ typeCheck(def, args, 0) >= 0 \/ depth >= MaxCallDepth
        THEN {[c |-> C, p |-> crash(P)]}
        ELSE runLines(def.bodyLines, 0,
                      [C EXCEPT !.variables = BindParams(@, def.params, args, 0)], P, depth + 1)

\* the user-function branch of a statement-level call: arity check, runtime type
\* check, local scope, body execution; the caller's Context is left as it was
userCall(funcName, args, C, P, depth) ==
    LET def == C.userFunctions[funcName]
        bad == typeCheck(def, args, 0)
        localCtx == [CopyContext(C) EXCEPT !.variables = BindParams(@, def.params, args, 0)]
    IN  IF Len(args) # Len(def.params)
        THEN {[c |-> C,
               p |-> printLine(P, <<"E","r","r","o","r",":"," ","F","u","n","c","t","i","o","n"," ","'">> \o funcName \o <<"'"," ","e","x","p","e","c","t","s"," ">> \o
                                  to_string(Len(def.params)) \o <<" ","a","r","g","u","m","e","n","t","s",","," ","g","o","t"," ">> \o
                                  to_string(Len(args)))]}
        ELSE IF bad >= 0
        THEN {[c |-> C,
               p |-> printLine(P, <<"T","y","p","e","E","r","r","o","r",":"," ","A","r","g","u","m","e","n","t"," ","'">> \o def.params[bad + 1] \o <<"'"," ","e","x","p","e","c","t","e","d"," ">> \o
                                  def.paramTypes[bad + 1] \o <<","," ","g","o","t"," ">> \o toString(args[bad + 1]))]}
        ELSE IF depth >= MaxCallDepth THEN {[c |-> C, p |-> crash(P)]}
        ELSE {[c |-> C, p |-> r.p] : r \in runLines(def.bodyLines, 0, localCtx, P, depth + 1)}

\* unknownFunction with the error thrown instead of printed
unknownFunctionThrows(funcName, C, P) ==
    {[c |-> C, p |-> throw(P, <<"U","n","k","n","o","w","n"," ","f","u","n","c","t","i","o","n"," ","'">> \o funcName \o <<"'">>)]}

\* the last branch of a statement-level call: the name is not callable
unknownFunction(funcName, C, P) ==
    {[c |-> C, p |-> printLine(P, <<"E","r","r","o","r",":"," ","U","n","k","n","o","w","n"," ","f","u","n","c","t","i","o","n"," ","'">> \o funcName \o <<"'">>)]}

\* the name a statement-level call names
calleeName(line) == trim(substr(line, 0, find(line, "(", 0)))

\* name(arg1, arg2, ...) as a statement
callStatement(line, C, P, depth) ==
    LET parenOpen  == find(line, "(", 0)
        parenClose == rfind(line, ")")
        funcName   == calleeName(line)
        argsStr    == substr(line, parenOpen + 1, parenClose - parenOpen - 1)
        args       == callArgs(argsStr, C.variables)
    IN  IF funcName \in BuiltinNames
        THEN {[c |-> C, p |-> r.p] : r \in callBuiltin(funcName, args, C, P, depth)}
        ELSE IF funcName \in DOMAIN C.userFunctions
        THEN userCall(funcName, args, C, P, depth)
        ELSE unknownFunction(funcName, C, P)

\* the handler the if-chain of executeLine selects for a line
statementKind(rawLine, C) ==
    LET line == trim(rawLine)
        parenOpen  == find(line, "(", 0)
        parenClose == rfind(line, ")")
    IN  IF line = <<>> \/ (At(line, 0) = "/" /\ At(line, 1) = "/") THEN "skip"
        ELSE IF startsWith(line, <<"l","e","t"," ">>) THEN "let"
        ELSE IF startsWith(line, <<"f","u","n","c","t","i","o","n"," ">>) THEN "function"
        ELSE IF startsWith(line, <<"i","f"," ">>) THEN "if"
        ELSE IF startsWith(line, <<"c","l","a","s","s"," ">>) THEN "class"
        ELSE IF parenOpen # npos /\ parenClose # npos /\ parenClose > parenOpen
        THEN (IF calleeName(line) \in BuiltinNames THEN "builtin"
              ELSE IF calleeName(line) \in DOMAIN C.userFunctions THEN "user"
              ELSE "unknown")
        ELSE "unrecognized"

executeLine(rawLine, C, P, depth) ==
    LET line == trim(rawLine)
        kind == statementKind(rawLine, C)
    IN  CASE kind = "skip"     -> {[c |-> C, p |-> P]}
          [] kind = "let"      -> letStatement(line, C, P, depth)
          [] kind = "function" -> functionStatement(line, C, P)
          [] kind = "if"       -> ifStatement(line, C, P, depth)
          [] kind = "class"    -> classStatement(line, C, P, depth)
          [] kind \in {"builtin", "user", "unknown"} -> callStatement(line, C, P, depth)
          [] OTHER -> {[c |-> C, p |-> printLine(P, <<"E","r","r","o","r",":"," ","U","n","r","e","c","o","g","n","i","z","e","d"," ","s","t","a","t","e","m","e","n","t",":"," ">> \o line)]}

(***************************************************************************)
(* TS::checkTypesInSource: the type-check pre-pass over the source text    *)
(***************************************************************************)
\* the characters of the model's strings in ASCII order: std::string's
\* operator<, which std::map<std::string, ...> iterates by
Ascii ==
    <<"\t", "\n", "\f", "\r", " ", "!", "\"", "#", "$", "%", "&", "'", "(", ")", "*", "+", ",",
      "-", ".", "/", "0", "1", "2", "3", "4", "5", "6", "7", "8", "9", ":", ";", "<", "=", ">",
      "?", "@", "A", "B", "C", "D", "E", "F", "G", "H", "I", "J", "K", "L", "M", "N", "O", "P",
      "Q", "R", "S", "T", "U", "V", "W", "X", "Y", "Z", "[", "\\", "]", "^", "_", "a", "b",
      "c", "d", "e", "f", "g", "h", "i", "j", "k", "l", "m", "n", "o", "p", "q", "r", "s", "t",
      "u", "v", "w", "x", "y", "z", "{", "|", "}", "~">>

\* a < b for std::string
RECURSIVE StrLess(_, _)
StrLess(a, b) ==
    IF b = <<>> THEN FALSE
    ELSE IF a = <<>> THEN TRUE
    ELSE IF a[1] = b[1] THEN StrLess(Tail(a), Tail(b))
    ELSE (CHOOSE i \in 1 .. Len(Ascii) : Ascii[i] = a[1]) < (CHOOSE i \in 1 .. Len(Ascii) : Ascii[i] = b[1])

\* the keys of a std::map in iteration order
RECURSIVE mapKeys(_)
mapKeys(S) ==
    IF S = {} THEN <<>>
    ELSE Let(CHOOSE x \in S : \A y \in S \ {x} : StrLess(x, y), LAMBDA first :
             <<first>> \o mapKeys(S \ {first}))

\* std::joinStrings(parts, sep) of setup.cpp
RECURSIVE joinStrings(_, _)
joinStrings(parts, sep) ==
    IF parts = <<>> THEN <<>>
    ELSE IF Len(parts) = 1 THEN parts[1]
    ELSE parts[1] \o sep \o joinStrings(Tail(parts), sep)

\* the file-static trim of ts.cpp, which strips std::isspace characters
tsTrim(s) ==
    Let(RunLen(s, 0, {" ", "\t", "\n", "\r", "\f"}), LAMBDA start :
    Let({e \in start .. Len(s) : \A i \in e + 1 .. Len(s) : isspace(s[i])}, LAMBDA ends :
        SubSeq(s, start + 1, CHOOSE e \in ends : \A f \in ends : e <= f)))

\* s.find(pat): the first position at which pat occurs in s
findStr(s, pat) ==
    Let({i \in 0 .. Len(s) - Len(pat) : SubSeq(s, i + 1, i + Len(pat)) = pat}, LAMBDA hits :
        IF hits = {} THEN npos ELSE CHOOSE i \in hits : \A j \in hits : i <= j)

\* "Split into lines": the pieces of source between '\n' characters, from start on
RECURSIVE splitLines(_, _)
splitLines(source, start) ==
    Let(find(source, "\n", start), LAMBDA end :
        IF end = npos THEN <<substrFrom(source, start)>>
        ELSE <<substr(source, start, end - start)>> \o splitLines(source, end + 1))

\* isalnum(c) || c == '_'
NameChars == Lower \cup Upper \cup Digits \cup {"_"}

\* pass 1, the loop over params from pos on: the types of the annotated parameters
RECURSIVE paramTypesFrom(_, _)
paramTypesFrom(params, pos) ==
    IF pos >= Len(params) THEN <<>>
    ELSE Let(pos + RunLen(params, pos, {" ", "\t", "\n", "\r", "\f"}), LAMBDA p1 :
         Let(p1 + RunLen(params, p1, NameChars), LAMBDA p2 :
         Let(p2 + RunLen(params, p2, {" ", "\t", "\n", "\r", "\f"}), LAMBDA p3 :
         Let(p3 + 1 + RunLen(params, p3 + 1, {" ", "\t", "\n", "\r", "\f"}), LAMBDA typeStart :
         Let(IF At(params, p3) = ":" THEN typeStart + RunLen(params, typeStart, NameChars) ELSE p3,
             LAMBDA p4 :
         Let(find(params, ",", p4), LAMBDA comma :
             (IF At(params, p3) = ":" THEN <<substr(params, typeStart, p4 - typeStart)>> ELSE <<>>)
             \o (IF comma = npos THEN <<>> ELSE paramTypesFrom(params, comma + 1))))))))

\* pass 1: funcParamTypes after the lines from i on, starting from fpt
RECURSIVE collectFunctions(_, _, _)
collectFunctions(lines, i, fpt) ==
    IF i >= Len(lines) THEN fpt
    ELSE Let(tsTrim(lines[i + 1]), LAMBDA line :
         Let(9 + RunLen(line, 9, NameChars), LAMBDA nameEnd :
         Let(find(line, "(", nameEnd), LAMBDA paramStart :
         Let(find(line, ")", paramStart), LAMBDA paramEnd :
             collectFunctions(lines, i + 1,
                 IF startsWith(line, <<"f","u","n","c","t","i","o","n"," ">>) /\ paramStart # npos /\ paramEnd # npos
                 THEN (substr(line, 9, nameEnd - 9)
                          :> paramTypesFrom(substr(line, paramStart + 1, paramEnd - paramStart - 1), 0))
                      @@ fpt
                 ELSE fpt)))))

\* "Compare types": the findings for arguments ai.. of one call
RECURSIVE compareTypes(_, _, _, _, _)
compareTypes(lineNo, funcName, expectedTypes, argList, ai) ==
    IF ai >= Len(argList) \/ ai >= Len(expectedTypes) THEN <<>>
    ELSE Let(argList[ai + 1], LAMBDA arg :
         Let(expectedTypes[ai + 1], LAMBDA expected :
         Let(<<"A","r","g","u","m","e","n","t"," ">> \o to_string(ai + 1) \o <<" ","t","o"," ">> \o funcName \o <<" ","s","h","o","u","l","d"," ","b","e"," ","a"," ">>, LAMBDA msg :
             (IF expected = <<"n","u","m","b","e","r">> /\ ~(arg # <<>> /\ (isdigit(arg[1]) \/ arg[1] = "."))
              THEN <<[line |-> lineNo, message |-> msg \o <<"n","u","m","b","e","r">>]>> ELSE <<>>)
             \o (IF expected = <<"s","t","r","i","n","g">>
                    /\ ~(Len(arg) >= 2 /\ (\/ arg[1] = "\"" /\ arg[Len(arg)] = "\""
                                           \/ arg[1] = "'" /\ arg[Len(arg)] = "'"))
                 THEN <<[line |-> lineNo, message |-> msg \o <<"s","t","r","i","n","g">>]>> ELSE <<>>)
             \o (IF expected = <<"b","o","o","l","e","a","n">> /\ arg \notin {<<"t","r","u","e">>, <<"f","a","l","s","e">>}
                 THEN <<[line |-> lineNo, message |-> msg \o <<"b","o","o","l","e","a","n">>]>> ELSE <<>>)
             \o compareTypes(lineNo, funcName, expectedTypes, argList, ai + 1))))

\* the loop that splits args at commas, from pos on
RECURSIVE argListFrom(_, _)
argListFrom(args, pos) ==
    IF pos >= Len(args) THEN <<>>
    ELSE Let(Min(find(args, ",", pos), Len(args)), LAMBDA end :
             <<tsTrim(substr(args, pos, end - pos))>> \o argListFrom(args, end + 1))

\* pass 2: the findings from line i, map entry j on; names are the map's keys in order
RECURSIVE checkCalls(_, _, _, _)
checkCalls(lines, i, j, fpt) ==
    IF i >= Len(lines) THEN <<>>
    ELSE IF j >= Cardinality(DOMAIN fpt) THEN checkCalls(lines, i + 1, 0, fpt)
    ELSE Let(tsTrim(lines[i + 1]), LAMBDA line :
         Let(mapKeys(DOMAIN fpt)[j + 1], LAMBDA funcName :
         Let(findStr(line, funcName \o <<"(">>), LAMBDA callPos :
         Let(callPos + Len(funcName) + 1, LAMBDA argStart :
         Let(find(line, ")", argStart), LAMBDA argEnd :
             (IF callPos # npos /\ argEnd # npos
              THEN compareTypes(i + 1, funcName, fpt[funcName],
                                argListFrom(substr(line, argStart, argEnd - argStart), 0), 0)
              ELSE <<>>)
             \o checkCalls(lines, i, j + 1, fpt))))))

checkTypesInSource(source) ==
    Let(splitLines(source, 0), LAMBDA lines :
        checkCalls(lines, 0, 0, collectFunctions(lines, 0, <<>>)))

(***************************************************************************)
(* The state machine.  Spec runs executeScript over a script with some     *)
(* standard input; SpecExpr evaluates one expression with                  *)
(* evalSimpleExpression.                                                   *)
(***************************************************************************)
\* the Context after Setup::initialize(): init(ctx) on the file-scope ctx
InitContext ==
    [variables |-> InitVariables, userFunctions |-> <<>>, isGlobal |-> TRUE, genv |-> <<>>]

\* host when executeScript or evalSimpleExpression is driven directly, without main
NoHost == [pc |-> "none", argv |-> <<>>, file |-> <<>>, errors |-> <<>>, status |-> -1]

\* a float that has not been produced yet
NoFloat == [hi |-> -1, lo |-> -1]

\* codec when no conversion is under way
NoCodec == [h |-> -1, f |-> NoFloat, out |-> -1]

\* a freshly started process with the given standard input
StartProcess(input) == [cin |-> input, out |-> <<>>, k |-> "ok", what |-> <<>>, ub |-> FALSE]

\* let x = 2; / let y = x * 3; / console.log(y);
ScriptLetLog ==
    <<<<"l","e","t"," ","x"," ","="," ","2",";">>, <<"l","e","t"," ","y"," ","="," ","x"," ","*"," ","3",";">>, <<"c","o","n","s","o","l","e",".","l","o","g","(","y",")",";">>>>

\* function add(a: number, b: number) { return a + b; } / console.log(add(2,3)); / add("x", 3);
ScriptAdd ==
    <<<<"f","u","n","c","t","i","o","n"," ","a","d","d","(","a",":"," ","n","u","m","b","e","r",","," ","b",":"," ","n","u","m","b","e","r",")"," ","{"," ","r","e","t","u","r","n"," ","a"," ","+"," ","b",";"," ","}">>, <<"c","o","n","s","o","l","e",".","l","o","g","(","a","d","d","(","2",",","3",")",")",";">>,
      <<"a","d","d","(","\"","x","\"",","," ","3",")",";">>>>

\* let x = ; / doesNotExist(x, 1); / console.log("next"); / let z = ;
ScriptUnknown ==
    <<<<"l","e","t"," ","x"," ","="," ",";">>, <<"d","o","e","s","N","o","t","E","x","i","s","t","(","x",","," ","1",")",";">>, <<"c","o","n","s","o","l","e",".","l","o","g","(","\"","n","e","x","t","\"",")",";">>, <<"l","e","t"," ","z"," ","="," ",";">>>>

\* assert(); / console.log("after");
ScriptAssert ==
    <<<<"a","s","s","e","r","t","(",")",";">>, <<"c","o","n","s","o","l","e",".","l","o","g","(","\"","a","f","t","e","r","\"",")",";">>>>

\* function f(a) { / console.log("body"); / } / f(1);
ScriptBlock ==
    <<<<"f","u","n","c","t","i","o","n"," ","f","(","a",")"," ","{">>, <<"c","o","n","s","o","l","e",".","l","o","g","(","\"","b","o","d","y","\"",")",";">>, <<"}">>, <<"f","(","1",")",";">>>>

\* let a = ; / function f(a, b) { / f(1, "s"); / console.log(a, b);
ScriptCall ==
    <<<<"l","e","t"," ","a"," ","="," ",";">>, <<"f","u","n","c","t","i","o","n"," ","f","(","a",","," ","b",")"," ","{">>, <<"f","(","1",","," ","\"","s","\"",")",";">>, <<"c","o","n","s","o","l","e",".","l","o","g","(","a",","," ","b",")",";">>>>

\* if () { / console.log("x"); / } / class A { / A.m(2);
ScriptIfClass ==
    <<<<"i","f"," ","(",")"," ","{">>, <<"c","o","n","s","o","l","e",".","l","o","g","(","\"","x","\"",")",";">>, <<"}">>, <<"c","l","a","s","s"," ","A"," ","{">>, <<"A",".","m","(","2",")",";">>>>

\* // note / nope / if (x) / g(); / let = 1
ScriptErrors ==
    <<<<"/","/"," ","n","o","t","e">>, <<"n","o","p","e">>, <<"i","f"," ","(","x",")">>, <<"g","(",")",";">>, <<"l","e","t"," ","="," ","1">>>>

\* function f(a) { / f(1, 2); / let r = f(1, 2);
ScriptArity ==
    <<<<"f","u","n","c","t","i","o","n"," ","f","(","a",")"," ","{">>, <<"f","(","1",","," ","2",")",";">>, <<"l","e","t"," ","r"," ","="," ","f","(","1",","," ","2",")",";">>>>

\* function g(a: number) { / g("s"); / g(1); / let q = g("s");
ScriptTypes ==
    <<<<"f","u","n","c","t","i","o","n"," ","g","(","a",":"," ","n","u","m","b","e","r",")"," ","{">>, <<"g","(","\"","s","\"",")",";">>, <<"g","(","1",")",";">>, <<"l","e","t"," ","q"," ","="," ","g","(","\"","s","\"",")",";">>>>

\* if (0) { / console.log("after");
ScriptElse ==
    <<<<"i","f"," ","(","0",")"," ","{">>, <<"c","o","n","s","o","l","e",".","l","o","g","(","\"","a","f","t","e","r","\"",")",";">>>>

\* class A { / console.log("x");
ScriptClass ==
    <<<<"c","l","a","s","s"," ","A"," ","{">>, <<"c","o","n","s","o","l","e",".","l","o","g","(","\"","x","\"",")",";">>>>

\* if () { / console.log("A"); / } / else { / console.log("B"); / }
ScriptIfElse ==
    <<<<"i","f"," ","(",")"," ","{">>, <<"c","o","n","s","o","l","e",".","l","o","g","(","\"","A","\"",")",";">>, <<"}">>, <<"e","l","s","e"," ","{">>, <<"c","o","n","s","o","l","e",".","l","o","g","(","\"","B","\"",")",";">>, <<"}">>>>

\* function k(a: number) { / } / k(1);
ScriptTyped ==
    <<<<"f","u","n","c","t","i","o","n"," ","k","(","a",":"," ","n","u","m","b","e","r",")"," ","{">>, <<"}">>, <<"k","(","1",")",";">>>>

Scripts ==
    {ScriptLetLog, ScriptAdd, ScriptUnknown, ScriptAssert, ScriptBlock, ScriptCall,
     ScriptIfClass, ScriptErrors, ScriptArity, ScriptTypes, ScriptElse, ScriptClass,
     ScriptIfElse, ScriptTyped}

\* a function body on standard input: console.log("body"); / return 7; / console.log("late"); / }
StdinBody ==
    <<<<"c","o","n","s","o","l","e",".","l","o","g","(","\"","b","o","d","y","\"",")",";">>, <<"r","e","t","u","r","n"," ","7",";">>, <<"c","o","n","s","o","l","e",".","l","o","g","(","\"","l","a","t","e","\"",")",";">>, <<"}">>>>

\* an if block and an else block on standard input: console.log("t"); / } / else { / console.log("e"); / } / console.log("rest");
StdinElse ==
    <<<<"c","o","n","s","o","l","e",".","l","o","g","(","\"","t","\"",")",";">>, <<"}">>, <<"e","l","s","e"," ","{">>, <<"c","o","n","s","o","l","e",".","l","o","g","(","\"","e","\"",")",";">>, <<"}">>, <<"c","o","n","s","o","l","e",".","l","o","g","(","\"","r","e","s","t","\"",")",";">>>>

\* a class body on standard input: static m(a) { / console.log(a); / } / static n = 2; / } / console.log("rest");
StdinClass ==
    <<<<"s","t","a","t","i","c"," ","m","(","a",")"," ","{">>, <<"c","o","n","s","o","l","e",".","l","o","g","(","a",")",";">>, <<"}">>, <<"s","t","a","t","i","c"," ","n"," ","="," ","2",";">>, <<"}">>, <<"c","o","n","s","o","l","e",".","l","o","g","(","\"","r","e","s","t","\"",")",";">>>>

\* the standard inputs a run may be started with
Stdins ==
    {<<>>, StdinBody, StdinElse, StdinClass,
     \* let a = ; / let c = ; / console.log(a, b); / }
     <<<<"l","e","t"," ","a"," ","="," ",";">>, <<"l","e","t"," ","c"," ","="," ",";">>, <<"c","o","n","s","o","l","e",".","l","o","g","(","a",","," ","b",")",";">>, <<"}">>>>,
     \* let a = 2; / f(a, a); / }
     <<<<"l","e","t"," ","a"," ","="," ","2",";">>, <<"f","(","a",","," ","a",")",";">>, <<"}">>>>,
     \* static m(a) { / let a = ; / } / else { / { / console.log("e"); / }
     <<<<"s","t","a","t","i","c"," ","m","(","a",")"," ","{">>, <<"l","e","t"," ","a"," ","="," ",";">>, <<"}">>, <<"e","l","s","e"," ","{">>, <<"{">>, <<"c","o","n","s","o","l","e",".","l","o","g","(","\"","e","\"",")",";">>, <<"}">>>>}

Init ==
    /\ script \in Scripts
    /\ idx = 0
    /\ ctx = InitContext
    /\ proc \in {StartProcess(input) : input \in Stdins}
    /\ trace = <<>>
    /\ exprText = <<>>
    /\ exprResult = <<>>
    /\ host = NoHost
    /\ codec = NoCodec

\* one iteration of `for (auto &line : lines) executeLine(line, ctx);`
RunLine ==
    /\ idx < Len(script)
    /\ proc.k = "ok"
    /\ \E r \in executeLine(script[idx + 1], ctx, proc, 0) :
         /\ ctx' = r.c
         /\ proc' = r.p
    /\ idx' = idx + 1
    /\ trace' = Append(trace, statementKind(script[idx + 1], ctx))
    /\ UNCHANGED <<script, exprText, exprResult, host, codec>>

Next == RunLine

Spec == Init /\ [][Next]_vars

\* the expressions evaluated under SpecExpr
Exprs ==
    {<<"1"," ","+"," ","2"," ","*"," ","3">>, <<"2"," ","*"," ","3"," ","+"," ","1">>, <<"8"," ","-"," ","6"," ","/"," ","2">>, <<"2"," ","*","*"," ","3"," ","*","*"," ","2">>, <<"\"","1","\""," ","+"," ","1">>, <<"1"," ","+"," ","1">>,
     <<"5"," ","/"," ","0">>, <<"0"," ","/"," ","0">>, <<"a"," ","/"," ","0">>, <<>>, <<"2">>, <<"x">>, <<"1"," ","<"," ","2"," ","&","&"," ","3">>,
     \* nosuch(1)   $x   "abc   1 == 1   1 != 2   1 === 1   1 !== 2   1 <= 2   2 >= 1   0 || 1   2 ** 3
     <<"n","o","s","u","c","h","(","1",")">>, <<"$","x">>, <<"\"","a","b","c">>, <<"1"," ","=","="," ","1">>,
     <<"1"," ","!","="," ","2">>, <<"1"," ","=","=","="," ","1">>, <<"1"," ","!","=","="," ","2">>, <<"1"," ","<","="," ","2">>,
     <<"2"," ",">","="," ","1">>, <<"0"," ","|","|"," ","1">>, <<"2"," ","*","*"," ","3">>,
     \* NaN   +   1 +   (1 + 2
     <<"N","a","N">>, <<"+">>, <<"1"," ","+">>, <<"(","1"," ","+"," ","2">>,
     \* Math.pow(2, 3)   Math.abs()
     <<"M","a","t","h",".","p","o","w","(","2",","," ","3",")">>, <<"M","a","t","h",".","a","b","s","(",")">>}

\* the values variable `a` may be bound to when an expression is evaluated
Dividends == {NumberValue(Dbl(5)), NumberValue(Dbl(0)), NumberValue(Dbl(-1)), StringValue(<<"s">>)}

InitExpr ==
    /\ script = <<>>
    /\ idx = 0
    /\ ctx \in {InitContext} \cup
               {[InitContext EXCEPT !.variables = setVar(@, <<"a">>, v)] : v \in Dividends}
    /\ proc = StartProcess(<<>>)
    /\ trace = <<>>
    /\ exprText \in Exprs
    /\ exprResult = <<>>
    /\ host = NoHost
    /\ codec = NoCodec

\* evalSimpleExpression(exprText, ctx.variables, callables)
Evaluate ==
    /\ exprResult = <<>>
    /\ \E r \in evalSimpleExpression(exprText, ctx.variables, mergedCallables(ctx), proc, 0) :
         exprResult' = <<r>>
    /\ UNCHANGED <<script, idx, ctx, proc, trace, exprText, host, codec>>

NextExpr == Evaluate

SpecExpr == InitExpr /\ [][NextExpr]_vars

(***************************************************************************)
(* The host: main (src/project/source/main.cpp) and Setup::runFile.        *)
(* host.pc is where control is: "main", "runFile" (about to open the       *)
(* file), "check" (lines loaded, about to run the pre-pass), "exec" (in    *)
(* executeScript) or "exit" (the process has ended with host.status).      *)
(***************************************************************************)
\* the command lines a run may be started with
Argvs == {<<<<"a","n","y","t","s">>>>, <<<<"a","n","y","t","s">>, <<"s",".","t","s">>>>}

\* what argv[1] names: no readable file, or a file holding one of the scripts
HostFiles == {[exists |-> FALSE, lines |-> <<>>]} \cup {[exists |-> TRUE, lines |-> s] : s \in Scripts}

\* the process at the entry of main: the file-scope ctx is default-constructed
InitHost ==
    /\ script = <<>>
    /\ idx = 0
    /\ ctx = [variables |-> <<>>, userFunctions |-> <<>>, isGlobal |-> TRUE, genv |-> <<>>]
    /\ proc \in {StartProcess(input) : input \in Stdins}
    /\ trace = <<>>
    /\ exprText = <<>>
    /\ exprResult = <<>>
    /\ host \in {[pc |-> "main", argv |-> a, file |-> f, errors |-> <<>>, status |-> -1]
                    : a \in Argvs, f \in HostFiles}
    /\ codec = NoCodec

\* main up to the call of runFile: Setup::initialize(), then the argc test
MainEntry ==
    /\ host.pc = "main"
    /\ ctx' = InitContext
    /\ IF Len(host.argv) < 2
       THEN /\ proc' = print(proc, <<"U","s","a","g","e",":"," ","p","a","t","h","/","t","o","/","b","u","i","l","t","/","r","u","n","t","i","m","e"," ","<","s","c","r","i","p","t",".","t","s",">">>)
            /\ host' = [host EXCEPT !.pc = "exit", !.status = 1]
       ELSE /\ proc' = proc
            /\ host' = [host EXCEPT !.pc = "runFile"]
    /\ UNCHANGED <<script, idx, trace, exprText, exprResult, codec>>

\* runFile: open the file and read its lines; failure makes main return 1
OpenFile ==
    /\ host.pc = "runFile"
    /\ IF ~host.file.exists
       THEN /\ proc' = printLine(proc, <<"E","r","r","o","r",":"," ","C","o","u","l","d"," ","n","o","t"," ","o","p","e","n"," ","f","i","l","e",":"," ">> \o host.argv[2])
            /\ host' = [host EXCEPT !.pc = "exit", !.status = 1]
            /\ script' = script
       ELSE /\ proc' = proc
            /\ host' = [host EXCEPT !.pc = "check"]
            /\ script' = host.file.lines
    /\ UNCHANGED <<idx, ctx, trace, exprText, exprResult, codec>>

\* the loop `for (auto &err : errors) std::cout << "Line " << err.line << ": " << err.message << "\n";`
RECURSIVE printErrors(_, _, _)
printErrors(P, errors, i) ==
    IF i >= Len(errors) THEN P
    ELSE printErrors(print(P, <<"L","i","n","e"," ">> \o to_string(errors[i + 1].line) \o <<":"," ">>
                                 \o errors[i + 1].message \o <<"\n">>), errors, i + 1)

\* runFile: the pre-execution type check over the joined lines
PrePass ==
    /\ host.pc = "check"
    /\ \E errors \in {checkTypesInSource(joinStrings(script, <<>>))} :
         /\ proc' = printErrors(proc, errors, 0)
         /\ host' = [host EXCEPT !.errors = errors,
                                 !.pc = IF errors # <<>> THEN "exit" ELSE "exec",
                                 !.status = IF errors # <<>> THEN 1 ELSE @]
    /\ UNCHANGED <<script, idx, ctx, trace, exprText, exprResult, codec>>

\* runFile: one iteration of the executeScript loop
HostRunLine ==
    /\ host.pc = "exec"
    /\ RunLine

\* executeScript returns, runFile returns true, main returns 0
ReturnFromRun ==
    /\ host.pc = "exec"
    /\ idx = Len(script)
    /\ proc.k = "ok"
    /\ host' = [host EXCEPT !.pc = "exit", !.status = 0]
    /\ UNCHANGED <<script, idx, ctx, proc, trace, exprText, exprResult, codec>>

\* the process is ended from inside executeScript: an exception nothing catches
\* reaches std::terminate, which aborts (status 128 + SIGABRT); a crash is a
\* fatal signal (128 + SIGSEGV)
Terminate ==
    /\ host.pc = "exec"
    /\ proc.k # "ok"
    /\ host' = [host EXCEPT !.pc = "exit", !.status = IF proc.k = "throw" THEN 128 + 6 ELSE 128 + 11]
    /\ UNCHANGED <<script, idx, ctx, proc, trace, exprText, exprResult, codec>>

NextHost == MainEntry \/ OpenFile \/ PrePass \/ HostRunLine \/ ReturnFromRun \/ Terminate

SpecHost == InitHost /\ [][NextHost]_vars

(***************************************************************************)
(* The half codec (src/project/source/half.cpp).  A uint16_t is a number   *)
(* in 0 .. 2^16 - 1.  A float is its 32-bit pattern, and a 32-bit pattern  *)
(* is the record [hi, lo] of its two 16-bit halves: the reinterpret_cast   *)
(* between float and uint32_t copies the bits.                             *)
(***************************************************************************)
\* a & b on non-negative integers
RECURSIVE BitAnd(_, _)
BitAnd(a, b) ==
    IF a = 0 \/ b = 0 THEN 0 ELSE (a % 2) * (b % 2) + 2 * BitAnd(a \div 2, b \div 2)

\* a | b on non-negative integers
RECURSIVE BitOr(_, _)
BitOr(a, b) ==
    IF a = 0 THEN b
    ELSE IF b = 0 THEN a
    ELSE (IF a % 2 = 1 \/ b % 2 = 1 THEN 1 ELSE 0) + 2 * BitOr(a \div 2, b \div 2)

\* the uint32_t an integer n converts to: n modulo 2^32
U32(n) == [hi |-> (n \div 2^16) % 2^16, lo |-> n % 2^16]

\* x << k on uint32_t
RECURSIVE Shl32(_, _)
Shl32(x, k) ==
    IF k = 0 THEN x
    ELSE Shl32([hi |-> (x.hi * 2 + x.lo \div 2^15) % 2^16, lo |-> (x.lo * 2) % 2^16], k - 1)

\* x | y on uint32_t
Or32(x, y) == [hi |-> BitOr(x.hi, y.hi), lo |-> BitOr(x.lo, y.lo)]

\* float_to_half: x >> 16 is the high half of x, so (x >> 16) & 0x8000 and
\* (x >> 23) & 0xFF read x.hi; x & 0x007FFFFF keeps 7 bits of x.hi and x.lo.
\* The returned uint16_t keeps the low 16 bits.
float_to_half(f) ==
    Let(BitAnd(f.hi, 32768), LAMBDA sign :
    Let(BitAnd(f.hi \div 2^7, 255) - 127 + 15, LAMBDA exponent :
    Let(BitAnd(f.hi, 127) * 2^16 + f.lo, LAMBDA mantissa :
        IF exponent <= 0
        THEN IF exponent < -10 THEN sign
             ELSE BitOr(sign, (BitOr(mantissa, 8388608) \div 2^(1 - exponent)) \div 2^13) % 2^16
        ELSE IF exponent >= 31
        THEN IF mantissa = 0 THEN BitOr(sign, 31744)
             ELSE BitOr(BitOr(sign, 31744), mantissa \div 2^13) % 2^16
        ELSE BitOr(BitOr(sign, exponent * 2^10), mantissa \div 2^13) % 2^16)))

\* half_to_float, the subnormal loop `while ((mantissa & 0x400) == 0) { mantissa <<= 1; exponent--; }`
\* exponent is a uint32_t that wraps below zero: it is kept as an integer here
\* and reduced modulo 2^32 by U32 where half_to_float uses it
RECURSIVE renormalize(_, _)
renormalize(mantissa, exponent) ==
    IF BitAnd(mantissa, 1024) = 0 THEN renormalize(mantissa * 2, exponent - 1)
    ELSE [mantissa |-> mantissa, exponent |-> exponent]

\* half_to_float, with the subnormal branch decoding without the loop
half_to_floatUnnormalized(h) ==
    Let([hi |-> BitAnd(h, 32768), lo |-> 0], LAMBDA sign :
    Let(BitAnd(h \div 2^10, 31), LAMBDA exponent :
    Let(BitAnd(h, 1023), LAMBDA mantissa :
        IF exponent = 0 /\ mantissa = 0 THEN sign
        ELSE IF exponent = 31
        THEN Or32(Or32(sign, [hi |-> 32640, lo |-> 0]), Shl32(U32(mantissa), 13))
        ELSE Or32(Or32(sign, Shl32(U32(exponent + 127 - 15), 23)), Shl32(U32(mantissa), 13)))))

\* half_to_float: (h & 0x8000) << 16 is the sign bit moved to the high half
half_to_float(h) ==
    Let([hi |-> BitAnd(h, 32768), lo |-> 0], LAMBDA sign :
    Let(BitAnd(h \div 2^10, 31), LAMBDA exponent :
    Let(BitAnd(h, 1023), LAMBDA mantissa :
        IF exponent = 0
        THEN IF mantissa = 0 THEN sign
             ELSE Let(renormalize(mantissa, 1), LAMBDA n :
                      Or32(Or32(sign, Shl32(U32(n.exponent + 127 - 15), 23)),
                           Shl32(U32(BitAnd(n.mantissa, 1023)), 13)))
        ELSE IF exponent = 31
        THEN Or32(Or32(sign, [hi |-> 32640, lo |-> 0]), Shl32(U32(mantissa), 13))
        ELSE Or32(Or32(sign, Shl32(U32(exponent + 127 - 15), 23)), Shl32(U32(mantissa), 13)))))

\* every uint16_t
HalfPatterns == 0 .. 2^16 - 1

\* the 23-bit mantissas the floats given to float_to_half are drawn from
Mantissas == {0, 1, 4095, 4096, 8191, 8192, 4194304, 8380416, 8388607}

\* floats given to float_to_half: both signs, every exponent, the mantissas above
FloatPatterns ==
    {[hi |-> s * 2^15 + e * 2^7 + m \div 2^16, lo |-> m % 2^16]
        : s \in {0, 1}, e \in 0 .. 255, m \in Mantissas}

InitHalf ==
    /\ script = <<>>
    /\ idx = 0
    /\ ctx = InitContext
    /\ proc = StartProcess(<<>>)
    /\ trace = <<>>
    /\ exprText = <<>>
    /\ exprResult = <<>>
    /\ host = NoHost
    /\ codec \in {[h |-> h, f |-> NoFloat, out |-> -1] : h \in HalfPatterns}
                 \cup {[h |-> -1, f |-> f, out |-> -1] : f \in FloatPatterns}

\* half::operator float(): half_to_float(bits)
Decode ==
    /\ codec.h # -1
    /\ codec.f = NoFloat
    /\ codec' = [codec EXCEPT !.f = half_to_float(codec.h)]
    /\ UNCHANGED <<script, idx, ctx, proc, trace, exprText, exprResult, host>>

\* half::half(float f): bits(float_to_half(f))
Encode ==
    /\ codec.f # NoFloat
    /\ codec.out = -1
    /\ codec' = [codec EXCEPT !.out = float_to_half(codec.f)]
    /\ UNCHANGED <<script, idx, ctx, proc, trace, exprText, exprResult, host>>

NextHalf == Decode \/ Encode

SpecHalf == InitHalf /\ [][NextHalf]_vars

(***************************************************************************)
(* The pre-pass on its own: TS::checkTypesInSource applied to the text of  *)
(* a source whose lines are `script`.  host.pc is "source" before the call *)
(* and "checked" after it, when host.errors holds the findings.            *)
(***************************************************************************)
\* the declared types and the argument texts the sources are built from
DeclaredTypes == {<<"n","u","m","b","e","r">>, <<"s","t","r","i","n","g">>, <<"b","o","o","l","e","a","n">>, <<"a","n","y">>}

ArgumentTexts ==
    {<<"x">>, <<"y","1">>, <<"t","o","t","a","l">>, <<"_","t">>, <<"\"","s","\"">>, <<"'","s","'">>, <<"\"","\"">>, <<"1">>, <<"4","2">>, <<".","5">>, <<"3",".","5">>,
     <<"t","r","u","e">>, <<"f","a","l","s","e">>, <<" ","7">>}

\* function h(a: T) { / } / h(A);
Sources ==
    {<<<<"f","u","n","c","t","i","o","n"," ","h","(","a",":"," ">> \o t \o <<")"," ","{">>, <<"}">>, <<"h","(">> \o a \o <<")",";">>>>
        : t \in DeclaredTypes, a \in ArgumentTexts}

InitSource ==
    /\ script \in Sources
    /\ idx = 0
    /\ ctx = InitContext
    /\ proc = StartProcess(<<>>)
    /\ trace = <<>>
    /\ exprText = <<>>
    /\ exprResult = <<>>
    /\ host = [NoHost EXCEPT !.pc = "source"]
    /\ codec = NoCodec

\* errors = TS::checkTypesInSource(source)
CheckSource ==
    /\ host.pc = "source"
    /\ host' = [host EXCEPT !.pc = "checked",
                            !.errors = checkTypesInSource(joinStrings(script, <<"\n">>))]
    /\ UNCHANGED <<script, idx, ctx, proc, trace, exprText, exprResult, codec>>

NextSource == CheckSource

SpecSource == InitSource /\ [][NextSource]_vars

(***************************************************************************)
(* Properties                                                              *)
(***************************************************************************)
\* executeScript has left its loop: past the last line, or the process died
Finished == idx = Len(script) \/ proc.k # "ok"

\* the statement the loop dispatches next
CurrentKind == IF idx < Len(script) THEN statementKind(script[idx + 1], ctx) ELSE "none"

\* the outcome of the evaluation, once there is one
Evaluated == exprResult # <<>>

ResultIs(v) == exprResult[1].p.k = "ok" /\ exprResult[1].val = v

C2_LetLogScript ==
    (script = ScriptLetLog /\ Finished) =>
        /\ proc.k = "ok"
        /\ proc.out = <<"6","\n">>
        /\ getVar(ctx.variables, <<"x">>).val = NumberValue(Dbl(2))
        /\ getVar(ctx.variables, <<"y">>).val = NumberValue(Dbl(6))

\* C3: after the one-line definition of add, `console.log(add(2,3));` prints the
\* line `5`, and `add("x", 3)` reports a TypeError and prints nothing else
C3_AddScript ==
    script = ScriptAdd =>
        /\ idx = 2 => proc.out = <<"5","\n">>
        /\ idx = 3 => proc.out = <<"5","\n","T","y","p","e","E","r","r","o","r",":"," ","A","r","g","u","m","e","n","t"," ","'","a","'"," ","e","x","p","e","c","t","e","d"," ","n","u","m","b","e","r",","," ","g","o","t"," ","x","\n">>

\* C4: the operator of higher precedence is applied first whatever the textual
\* order: `1 + 2 * 3` and `2 * 3 + 1` are Number 7, `8 - 6 / 2` is Number 5
C4_Precedence ==
    Evaluated =>
        /\ exprText \in {<<"1"," ","+"," ","2"," ","*"," ","3">>, <<"2"," ","*"," ","3"," ","+"," ","1">>} => ResultIs(NumberValue(Dbl(7)))
        /\ exprText = <<"8"," ","-"," ","6"," ","/"," ","2">> => ResultIs(NumberValue(Dbl(5)))

\* C5: `2 ** 3 ** 2` evaluates to Number 512
C5_PowerChain ==
    (Evaluated /\ exprText = <<"2"," ","*","*"," ","3"," ","*","*"," ","2">>) => ResultIs(NumberValue(Dbl(512)))

\* C6: `+` concatenates when an operand is a String and adds otherwise:
\* `"1" + 1` is String "11" and `1 + 1` is Number 2
C6_PlusOverload ==
    Evaluated =>
        /\ exprText = <<"\"","1","\""," ","+"," ","1">> => ResultIs(StringValue(<<"1","1">>))
        /\ exprText = <<"1"," ","+"," ","1">> => ResultIs(NumberValue(Dbl(2)))

\* C7: a division by zero raises no error and yields the NaN Value: its tag is
\* NaN, its toString is "NaN" and its toBool is false
C7_DivisionByZero ==
    (Evaluated /\ exprText \in {<<"5"," ","/"," ","0">>, <<"0"," ","/"," ","0">>, <<"a"," ","/"," ","0">>}) =>
        /\ exprResult[1].p.k = "ok"
        /\ exprResult[1].val.type = "NaN"
        /\ toString(exprResult[1].val) = <<"N","a","N">>
        /\ ~toBool(exprResult[1].val)

\* C8: a statement-level call of a name that is neither a builtin nor a user
\* function prints the unknown-function error, changes neither the Context nor
\* the standard input, and the loop goes on with the next line
C8_UnknownFunction ==
    [][(proc.k = "ok" /\ CurrentKind = "unknown") =>
          /\ ctx' = ctx
          /\ proc' = printLine(proc, <<"E","r","r","o","r",":"," ","U","n","k","n","o","w","n"," ","f","u","n","c","t","i","o","n"," ","'">> \o
                                     calleeName(trim(script[idx + 1])) \o <<"'">>)
          /\ proc'.k = "ok"
          /\ idx' = idx + 1]_vars

\* C8 witness: an unknown function was called and every later line was run, to
\* the end of the script
C8_Witness ==
    /\ proc.k = "ok"
    /\ idx = Len(script)
    /\ \E i \in 1..Len(trace) : trace[i] = "unknown" /\ i + 1 < Len(trace)

\* C9: no statement is fatal: no exception escapes executeLine, so the loop of
\* executeScript is never cut short
C9_NoStatementFatal == proc.k # "throw"

\* the last line of the block that the header at line j (0-based) opens: where
\* the brace depth is back at 0, or the last line of the script
RECURSIVE blockEnd(_, _, _)
blockEnd(lines, j, depth) ==
    IF j + 1 >= Len(lines) THEN Len(lines) - 1
    ELSE LET d1 == IF contains(lines[j + 2], "{") THEN depth + 1 ELSE depth
             d2 == IF contains(lines[j + 2], "}") THEN d1 - 1 ELSE d1
         IN  IF d2 <= 0 THEN j + 1 ELSE blockEnd(lines, j + 1, d2)

\* C10: a block statement takes its body from the script's own cursor: once
\* its header is dispatched the loop resumes after the block's last line, so no
\* body line is ever dispatched, and nothing is read from anywhere else
C10_SharedCursor ==
    [][(proc.k = "ok" /\ CurrentKind \in {"function", "if", "class"}
          /\ contains(script[idx + 1], "{") /\ ~contains(script[idx + 1], "}")) =>
          /\ idx' = blockEnd(script, idx, 1) + 1
          /\ proc'.cin = proc.cin]_vars

\* C11: runFile executes no statement unless the file was opened and the
\* pre-pass returned zero findings; when the file cannot be opened or the
\* pre-pass reports a finding the process ends with status 1 having executed
\* nothing; otherwise the whole script is executed and the process ends with
\* status 0.
C11_RunLoopOrdering ==
    Let(/\ host.file.exists
        /\ checkTypesInSource(joinStrings(host.file.lines, <<>>)) = <<>>, LAMBDA clean :
        /\ idx > 0 => clean
        /\ (host.pc = "exit" /\ Len(host.argv) >= 2 /\ ~clean)
              => (host.status = 1 /\ idx = 0 /\ trace = <<>> /\ ctx = InitContext)
        /\ (host.pc = "exit" /\ Len(host.argv) >= 2 /\ clean)
              => (host.status = 0 /\ idx = Len(script)))

\* C12: for every 16-bit pattern h that is not a NaN pattern (zero, subnormal,
\* normal and infinity, both signs), float_to_half(half_to_float(h)) = h.
C12_HalfRoundTrip ==
    (codec.h # -1 /\ codec.out # -1 /\ ~((codec.h \div 2^10) % 32 = 31 /\ codec.h % 2^10 # 0))
        => codec.out = codec.h

\* a negative subnormal half has been decoded and encoded again
C12_Witness ==
    /\ codec.h \in 2^15 + 1 .. 2^15 + 1023
    /\ codec.out = codec.h

\* C13: for every finite float whose re-biased exponent is at least 31,
\* float_to_half returns sign | 0x7C00 exactly: signed infinity, never a NaN pattern.
C13_EncodeOverflow ==
    (/\ codec.h = -1
     /\ codec.out # -1
     /\ ((codec.f.hi \div 2^7) % 2^8) # 255
     /\ ((codec.f.hi \div 2^7) % 2^8) - 127 + 15 >= 31)
        => codec.out = (codec.f.hi \div 2^15) * 2^15 + 31744

\* C14: evaluating an identifier that is not bound in the Environment, or a
\* call of a name absent from the callable table, raises no error and yields a
\* Value whose tag is Undefined and whose toString is "undefined"
C14_SoftLookup ==
    (/\ Evaluated
     /\ \/ exprText = <<"x">> /\ <<"x">> \notin DOMAIN ctx.variables
        \/ exprText = <<"n","o","s","u","c","h","(","1",")">> /\ <<"n","o","s","u","c","h">> \notin BuiltinNames \cup DOMAIN ctx.userFunctions) =>
        /\ exprResult[1].p.k = "ok"
        /\ ~exprResult[1].p.ub
        /\ exprResult[1].val.type = "Undefined"
        /\ toString(exprResult[1].val) = <<"u","n","d","e","f","i","n","e","d">>

\* the argument text of the call of user function `name` that a line holds, and
\* whether the line holds such a call at all (a declaration is not a call)
callOf(line, name, C) ==
    Let(findStr(line, name \o <<"(">>), LAMBDA pos :
        [found |-> pos # npos /\ statementKind(line, C) \in {"user", "let", "if"},
         args  |-> callArgs(substr(line, pos + Len(name) + 1,
                                   Wrap(rfind(line, ")") - (pos + Len(name) + 1))),
                            C.variables)])

\* what the step from the current state to the next one printed
printed == SubSeq(proc'.out, Len(proc.out) + 1, Len(proc'.out))

\* the step printed exactly one line, and the line starts with `prefix`
printedOneLine(prefix) ==
    /\ startsWith(printed, prefix)
    /\ find(printed, "\n", 0) = Len(printed) - 1

\* C15: whenever a line calls a user function with a number of arguments that
\* differs from its number of parameters, the arity error is the only thing the
\* line prints (no body line runs), and a statement-level call leaves the
\* caller's Context unchanged
C15_ArityCheck ==
    [][\A name \in DOMAIN ctx.userFunctions :
         (/\ idx' = idx + 1
          /\ callOf(script[idx + 1], name, ctx).found
          /\ Len(callOf(script[idx + 1], name, ctx).args) # Len(ctx.userFunctions[name].params))
            => /\ proc'.k = "ok"
               /\ printedOneLine(<<"E","r","r","o","r",":"," ","F","u","n","c","t","i","o","n"," ","'">> \o name \o <<"'"," ","e","x","p","e","c","t","s"," ">>)
               /\ statementKind(script[idx + 1], ctx) = "user" => ctx' = ctx]_vars

\* C16: whenever a line calls a user function with the right number of
\* arguments, at statement level or inside an expression, and some parameter
\* declared number, string or boolean receives an argument of another runtime
\* tag, the TypeError is the only thing the line prints (the body does not
\* run); a statement-level call whose arguments all pass prints no TypeError
C16_RuntimeTypeCheck ==
    [][\A name \in DOMAIN ctx.userFunctions :
         (/\ idx' = idx + 1
          /\ callOf(script[idx + 1], name, ctx).found
          /\ Len(callOf(script[idx + 1], name, ctx).args) = Len(ctx.userFunctions[name].params))
            => Let(typeCheck(ctx.userFunctions[name], callOf(script[idx + 1], name, ctx).args, 0),
                   LAMBDA bad :
                     /\ bad >= 0 => /\ proc'.k = "ok"
                                    /\ printedOneLine(<<"T","y","p","e","E","r","r","o","r",":"," ","A","r","g","u","m","e","n","t"," ","'">>
                                                      \o ctx.userFunctions[name].params[bad + 1]
                                                      \o <<"'"," ","e","x","p","e","c","t","e","d"," ">>)
                     /\ (bad < 0 /\ statementKind(script[idx + 1], ctx) = "user")
                            => ~startsWith(printed, <<"T","y","p","e","E","r","r","o","r",":"," ">>))]_vars

\* the 1-based position of the first body line that begins with `return`, from
\* line j on; 0 when there is none
RECURSIVE firstReturn(_, _)
firstReturn(body, j) ==
    IF j > Len(body) THEN 0
    ELSE IF startsWith(trim(body[j]), <<"r","e","t","u","r","n">>) THEN j
    ELSE firstReturn(body, j + 1)

\* C17: when a statement-level call of a user function passes the arity and
\* type checks and the body holds a `return` line, the call prints what the
\* body lines before the first `return` line print and nothing else: no line
\* after it runs and the return line is not reported as an error
C17_ReturnEndsCall ==
    [][\A name \in DOMAIN ctx.userFunctions :
         Let(ctx.userFunctions[name], LAMBDA def :
         Let(callOf(script[idx + 1], name, ctx), LAMBDA call :
         Let(firstReturn(def.bodyLines, 1), LAMBDA ret :
             (/\ idx' = idx + 1
              /\ statementKind(script[idx + 1], ctx) = "user"
              /\ calleeName(trim(script[idx + 1])) = name
              /\ Len(call.args) = Len(def.params)
              /\ typeCheck(def, call.args, 0) < 0
              /\ ret > 0)
                => proc'.out \in
                     {r.p.out : r \in runLines(SubSeq(def.bodyLines, 1, ret - 1), 0,
                                               [CopyContext(ctx) EXCEPT !.variables =
                                                    BindParams(@, def.params, call.args, 0)],
                                               proc, 1)})))]_vars

\* the condition text of an if header
ifCondition(line) ==
    Let(find(line, "(", 0), LAMBDA condStart :
        trim(substr(line, condStart + 1, Wrap(find(line, ")", condStart) - condStart - 1))))

\* the input that follows the true-branch block of the if header being
\* dispatched, on the stream the block is read from: it starts with the line
\* after the block's closing brace
afterIfBlock ==
    SubSeq(proc.cin, blockEnd(<<script[idx + 1]>> \o proc.cin, 0, 1) + 1, Len(proc.cin))

\* C18: when the condition of an if is false and the line after the
\* true-branch block starts with `else`, the statement consumes the input up
\* to the closing brace that matches the else block, prints what the lines of
\* that block print, in order, and leaves the lines after the brace unread
C18_ElseBranch ==
    [][(/\ idx' = idx + 1
        /\ statementKind(script[idx + 1], ctx) = "if"
        /\ contains(script[idx + 1], "{")
        /\ proc'.k = "ok"
        /\ \A r \in evalSimpleExpression(ifCondition(trim(script[idx + 1])), ctx.variables,
                                         mergedCallables(ctx), proc, 0) :
              r.p.k = "ok" => ~toBool(r.val)
        /\ afterIfBlock # <<>>
        /\ startsWith(trim(afterIfBlock[1]), <<"e","l","s","e">>)
        /\ contains(afterIfBlock[1], "{"))
          => Let(blockEnd(afterIfBlock, 0, 1), LAMBDA last :
             Let(SubSeq(afterIfBlock, last + 2, Len(afterIfBlock)), LAMBDA rest :
                 /\ proc'.cin = rest
                 /\ proc'.out \in
                      {r.p.out : r \in runLines(SubSeq(afterIfBlock, 2, last), 0, ctx,
                                                [proc EXCEPT !.cin = rest], 0)}))]_vars

\* C19: the tokenizer terminates on every expression, identifiers with `$`
\* included, raises no error, returns only non-empty tokens, and turns an
\* unterminated string literal into one token that holds the rest of the input
C19_TokenizerTotal ==
    Evaluated =>
        Let(tokenize(exprText), LAMBDA t :
            /\ ~t.hang
            /\ exprResult[1].p.what # <<"s","t","d",":",":","b","a","d","_","a","l","l","o","c">>
            /\ \A k \in DOMAIN t.tokens : t.tokens[k] # <<>>
            /\ exprText = <<"\"","a","b","c">> => t.tokens = <<exprText>>)

\* expressions with one multi-character operator between two operands, the
\* operator, and the Value the operator's semantics give
MultiCharCases ==
    {[expr |-> <<"2"," ","*","*"," ","3">>, op |-> <<"*","*">>, result |-> NumberValue(Dbl(8))],
     [expr |-> <<"1"," ","=","="," ","1">>, op |-> <<"=","=">>, result |-> BoolValue(TRUE)],
     [expr |-> <<"1"," ","!","="," ","2">>, op |-> <<"!","=">>, result |-> BoolValue(TRUE)],
     [expr |-> <<"1"," ","=","=","="," ","1">>, op |-> <<"=","=","=">>, result |-> BoolValue(TRUE)],
     [expr |-> <<"1"," ","!","=","="," ","2">>, op |-> <<"!","=","=">>, result |-> BoolValue(TRUE)],
     [expr |-> <<"1"," ","<","="," ","2">>, op |-> <<"<","=">>, result |-> BoolValue(TRUE)],
     [expr |-> <<"2"," ",">","="," ","1">>, op |-> <<">","=">>, result |-> BoolValue(TRUE)],
     [expr |-> <<"1"," ","<"," ","2"," ","&","&"," ","3">>, op |-> <<"&","&">>, result |-> BoolValue(TRUE)],
     [expr |-> <<"0"," ","|","|"," ","1">>, op |-> <<"|","|">>, result |-> BoolValue(TRUE)]}

\* C20: for each of ** == != === !== <= >= && || written between two operands,
\* the postfix sequence holds exactly one instruction with the operator's full
\* text and none of its single characters, and the evaluation yields what the
\* operator's semantics give
C20_OperatorsCoalesced ==
    Evaluated =>
        \A c \in MultiCharCases :
            exprText = c.expr =>
                Let(shuntingYard(tokenize(exprText).tokens), LAMBDA output :
                    /\ Cardinality({k \in DOMAIN output : output[k] = c.op}) = 1
                    /\ \A k \in DOMAIN output : \A j \in DOMAIN c.op : output[k] # <<c.op[j]>>
                    /\ ResultIs(c.result))

\* the trimmed, non-empty lines among the first n lines of the input
insideLines(lines, n) ==
    SelectSeq([k \in 1 .. n |-> trim(lines[k])], LAMBDA l : l # <<>>)

\* the 1-based position, from line j on, of the line whose closing brace takes
\* the brace depth back to 0; 0 when the input ends first
RECURSIVE matchingLine(_, _, _)
matchingLine(lines, j, depth) ==
    IF j > Len(lines) THEN 0
    ELSE Let(IF contains(lines[j], "{") THEN depth + 1 ELSE depth, LAMBDA d1 :
         Let(IF contains(lines[j], "}") THEN d1 - 1 ELSE d1, LAMBDA d2 :
             IF d2 <= 0 THEN j ELSE matchingLine(lines, j + 1, d2)))

\* C21: a function definition whose header opens a brace consumes the input
\* up to and including the line with the matching closing brace and stores
\* the lines strictly inside the braces; when the closing brace is on the
\* header itself nothing is consumed and the body is the text between the
\* two braces
C21_FunctionBodyCapture ==
    [][(/\ idx' = idx + 1
        /\ statementKind(script[idx + 1], ctx) = "function"
        /\ proc'.k = "ok")
          => Let(trim(script[idx + 1]), LAMBDA header :
             Let(find(header, "{", find(header, ")", 0)), LAMBDA braceOpen :
             Let(find(header, "}", braceOpen), LAMBDA braceClose :
             Let(functionDef(header, proc).funcName, LAMBDA funcName :
             Let(matchingLine(proc.cin, 1, 1), LAMBDA last :
                 /\ funcName \in DOMAIN ctx'.userFunctions
                 /\ (braceOpen # npos /\ braceClose # npos) =>
                        /\ proc'.cin = proc.cin
                        /\ ctx'.userFunctions[funcName].bodyLines =
                             insideLines(<<substr(header, braceOpen + 1,
                                                  braceClose - braceOpen - 1)>>, 1)
                 /\ (braceOpen # npos /\ braceClose = npos /\ last > 0) =>
                        /\ proc'.cin = SubSeq(proc.cin, last + 1, Len(proc.cin))
                        /\ ctx'.userFunctions[funcName].bodyLines =
                             insideLines(<<substrFrom(header, braceOpen + 1)>>, 1)
                               \o insideLines(proc.cin, last - 1))))))]_vars

\* C22: when a class statement has run, every line `static m(p1, ...) {` of
\* the class body has registered the user function Name.m with the parameters
\* declared on that line and the lines inside the method's braces as its
\* body, and the line `static n = 2;` has stored Number 2 under Name.n
C22_ClassStatics ==
    [][(/\ idx' = idx + 1
        /\ statementKind(script[idx + 1], ctx) = "class"
        /\ proc'.k = "ok")
          => Let(trim(script[idx + 1]), LAMBDA line :
             Let(trim(substr(line, 6, Wrap(find(line, "{", 6) - 6))), LAMBDA className :
                 \A k \in 1 .. matchingLine(proc.cin, 1, 1) - 1 :
                     Let(trim(proc.cin[k]), LAMBDA bl :
                     Let(trim(substrFrom(bl, 7)), LAMBDA rest :
                     Let(SubSeq(proc.cin, k + 1, Len(proc.cin)), LAMBDA after :
                         /\ (startsWith(bl, <<"s","t","a","t","i","c"," ">>) /\ contains(rest, "(")) =>
                              Let(className \o <<".">> \o trim(substr(rest, 0, find(rest, "(", 0))),
                                  LAMBDA funcName :
                                    /\ funcName \in DOMAIN ctx'.userFunctions
                                    /\ ctx'.userFunctions[funcName].params =
                                           functionDef(bl, proc).def.params
                                    /\ ctx'.userFunctions[funcName].bodyLines =
                                           insideLines(after, matchingLine(after, 1, 1) - 1))
                         /\ (startsWith(bl, <<"s","t","a","t","i","c"," ">>) /\ rest = <<"n"," ","="," ","2",";">>) =>
                              /\ className \o <<".","n">> \in DOMAIN ctx'.variables
                              /\ ctx'.variables[className \o <<".","n">>] = NumberValue(Dbl(2)))))))]_vars

\* the text of the only argument of the call on the last line of a source,
\* trimmed as the pre-pass trims it
callArgument ==
    Let(script[Len(script)], LAMBDA line :
        trim(substr(line, find(line, "(", 0) + 1, find(line, ")", 0) - find(line, "(", 0) - 1)))

\* the declared type of the only parameter on the first line of a source
declaredType ==
    Let(script[1], LAMBDA line :
        trim(substr(line, find(line, ":", 0) + 1, find(line, ")", 0) - find(line, ":", 0) - 1)))

\* the type a literal's lexical shape stands for; "none" for a text that is no literal
literalShape(arg) ==
    IF Len(arg) >= 2 /\ arg[1] \in {"\"", "'"} /\ arg[Len(arg)] = arg[1] THEN <<"s","t","r","i","n","g">>
    ELSE IF arg # <<>> /\ (isdigit(arg[1]) \/ arg[1] = ".") THEN <<"n","u","m","b","e","r">>
    ELSE IF arg \in {<<"t","r","u","e">>, <<"f","a","l","s","e">>} THEN <<"b","o","o","l","e","a","n">>
    ELSE <<"n","o","n","e">>

\* C23: a finding on a call line is reported only when the argument is a
\* literal whose lexical shape disagrees with the declared parameter type; a
\* variable name as the argument never produces a finding
C23_LiteralsOnly ==
    host.pc = "checked" =>
        \A k \in DOMAIN host.errors :
            host.errors[k].line = Len(script) =>
                /\ literalShape(callArgument) # <<"n","o","n","e">>
                /\ literalShape(callArgument) # declaredType

\* C24: toBool of the Value an evaluation yields follows the table: Boolean
\* gives itself, Number gives true exactly when nonzero, String gives true
\* exactly when nonempty, and Null, Undefined and every NaN give false
C24_ToBoolTable ==
    (Evaluated /\ exprResult[1].p.k = "ok") =>
        Let(exprResult[1].val, LAMBDA v :
            /\ toBool(v) \in BOOLEAN
            /\ v.type = "Boolean" => toBool(v) = v.bool
            /\ (v.type = "Number" /\ v.num.k # "nan") => (toBool(v) <=> v.num # Dbl(0))
            /\ v.type = "String" => (toBool(v) <=> v.str # <<>>)
            /\ (v.type \in {"Null", "Undefined", "NaN"} \/ (v.type = "Number" /\ v.num.k = "nan"))
                  => ~toBool(v))

\* C25: an evaluation never reads or pops the operand stack while it is
\* empty, whatever the expression (well formed, a lone operator, a missing
\* operand, an unbalanced parenthesis, empty input), and it returns a Value
C25_StackSafety ==
    Evaluated => (exprResult[1].p.k = "ok" /\ ~exprResult[1].p.ub)

\* C26: of the tokens of an expression exactly the sixteen operator spellings
\* are classified as operators (a literal, an identifier or a parenthesis
\* never is), so that the evaluation of the literal `2` pushes Number 2 and
\* pops nothing
C26_InstructionClasses ==
    (Evaluated /\ ~tokenize(exprText).hang) =>
        /\ \A k \in DOMAIN tokenize(exprText).tokens :
              isOperator(tokenize(exprText).tokens[k])
                 <=> tokenize(exprText).tokens[k] \in OperatorTokens
        /\ exprText = <<"2">> => (ResultIs(NumberValue(Dbl(2))) /\ ~exprResult[1].p.ub)

\* calls, the argument-count marker their postfix sequence is to hold, and
\* the Value the callable returns for the arguments in their written order
CallCases ==
    {[expr |-> <<"M","a","t","h",".","p","o","w","(","2",","," ","3",")">>, marker |-> <<"#","2">>, name |-> <<"M","a","t","h",".","p","o","w">>,
      results |-> {NumberValue(Dbl(8))}],
     [expr |-> <<"n","o","s","u","c","h","(","1",")">>, marker |-> <<"#","1">>, name |-> <<"n","o","s","u","c","h">>, results |-> {NullValue}],
     [expr |-> <<"M","a","t","h",".","a","b","s","(",")">>, marker |-> <<"#","1">>, name |-> <<"M","a","t","h",".","a","b","s">>,
      results |-> GarbageValues \cup {NumberValue(x) : x \in OpaqueDoubles}]}

\* C27: the postfix sequence of a call with n >= 1 arguments holds the marker
\* #n followed by the function marker, and the callable receives the n
\* arguments in their written order; the sequence of a call without
\* arguments holds #1
C27_ArgumentCount ==
    Evaluated =>
        \A c \in CallCases :
            exprText = c.expr =>
                Let(shuntingYard(tokenize(exprText).tokens), LAMBDA output :
                    /\ \E k \in 1 .. Len(output) - 1 :
                          output[k] = c.marker /\ output[k + 1] = <<"@">> \o c.name
                    /\ exprResult[1].p.k = "ok"
                    /\ exprResult[1].val \in c.results)

\* the truth values the condition of the if header being dispatched can take
conditionValues ==
    {toBool(r.val) : r \in {q \in evalSimpleExpression(ifCondition(trim(script[idx + 1])),
                                                       ctx.variables, mergedCallables(ctx), proc, 0)
                              : q.p.k = "ok"}}

\* C28: an if whose block is followed by a line that does not start with
\* `else` moves the cursor over the script past the block's closing brace when
\* the condition is true, and one line further, losing that line, when the
\* condition is false
C28_IfWithoutElse ==
    [][(/\ idx' > idx
        /\ proc.k = "ok" /\ proc'.k = "ok"
        /\ CurrentKind = "if"
        /\ contains(script[idx + 1], "{") /\ ~contains(script[idx + 1], "}"))
          => Let(blockEnd(script, idx, 1), LAMBDA last :
                 (/\ last + 1 < Len(script)
                  /\ contains(script[last + 1], "}")
                  /\ ~startsWith(trim(script[last + 2]), <<"e","l","s","e">>))
                    => /\ conditionValues = {FALSE} => idx' = last + 2
                       /\ conditionValues = {TRUE} => idx' = last + 1)]_vars

\* the run has printed `text`
hasPrinted(text) == findStr(proc.out, text) # npos

\* C29: of the two blocks of `if () { A } else { B }`, whose condition is
\* false, the run executes B and not A, and no line of either block is
\* reported as an unrecognized statement
C29_BranchExclusivity ==
    (script = ScriptIfElse /\ Finished /\ proc.k = "ok") =>
        /\ hasPrinted(<<"B","\n">>)
        /\ ~hasPrinted(<<"A","\n">>)
        /\ ~hasPrinted(<<"E","r","r","o","r",":"," ","U","n","r","e","c","o","g","n","i","z","e","d"," ","s","t","a","t","e","m","e","n","t">>)

\* C30: for the file `function k(a: number) {` / `}` / `k(1);`, a typed
\* declaration and a call that passes a literal of the declared type, the
\* pre-pass reports no finding, least of all for the declaration itself, and
\* the host runs the script to its end and exits with status 0
C30_DeclarationsPass ==
    (/\ host.pc = "exit"
     /\ Len(host.argv) >= 2
     /\ host.file.exists
     /\ host.file.lines = ScriptTyped)
        => /\ host.errors = <<>>
           /\ host.status = 0
           /\ idx = Len(script)

====
